---- MODULE Spec2Model ----
(***************************************************************************)
(* FEValues<dim> and FEFaceValues<dim> of deal.II (fe/fe_values.h,         *)
(* fe/fe_values.cc) as state machines: the object built by the             *)
(* constructor, reinit, and the index-taking accessors.                    *)
(*                                                                         *)
(* A double is modelled as an exact rational <<n, d>> in lowest terms      *)
(* (d > 0; <<1,0>>, <<-1,0>>, <<0,0>> stand for +inf, -inf, NaN), a        *)
(* Point<dim> as a function over 0..dim-1 and a dFMatrix as a function     *)
(* over rows of functions over columns.                                    *)
(***************************************************************************)
EXTENDS Integers, Sequences, FiniteSets, TLC

(***************************************************************************)
(* Bounds of the model.                                                    *)
(***************************************************************************)
\* quadrature rules with 1..MaxQ points are passed to the constructors
MaxQ == 2
\* accessors are called with indices from 0 up to MaxOver past the last valid one
MaxOver == 1
\* FEFaceValues<d> is instantiated for d in 1..MaxDim
MaxDim == 3

\* template class FEValues<2>; template class FEFaceValues<2>;
dim == 2

(***************************************************************************)
(* double arithmetic                                                       *)
(***************************************************************************)
RECURSIVE GCD(_, _)
GCD(a, b) == IF b = 0 THEN a ELSE GCD(b, a % b)

Abs(x) == IF x < 0 THEN -x ELSE x

Sgn(x) == IF x < 0 THEN -1 ELSE IF x = 0 THEN 0 ELSE 1

Rat(n, d) ==
  IF d = 0 THEN <<Sgn(n), 0>>
  ELSE LET g == GCD(Abs(n), Abs(d))
           s == Sgn(d)
       IN  <<(s * n) \div g, (s * d) \div g>>

Zero == <<0, 1>>
One == <<1, 1>>

RAdd(a, b) == Rat(a[1] * b[2] + b[1] * a[2], a[2] * b[2])
RSub(a, b) == Rat(a[1] * b[2] - b[1] * a[2], a[2] * b[2])
RMul(a, b) == Rat(a[1] * b[1], a[2] * b[2])
RDiv(a, b) == Rat(a[1] * b[2], a[2] * b[1])

Components == 0 .. (dim - 1)

\* Point<dim>() : all components zero
PointZero == [s \in Components |-> Zero]
Point2(x, y) == [s \in Components |-> IF s = 0 THEN x ELSE y]

\* dFMatrix(dim,dim)
MatrixZero == [b \in Components |-> [s \in Components |-> Zero]]
Matrix2(a, b, c, d) ==
  [r \in Components |-> [s \in Components |->
     IF r = 0 THEN (IF s = 0 THEN a ELSE b) ELSE (IF s = 0 THEN c ELSE d)]]
Identity == Matrix2(One, Zero, Zero, One)

\* dFMatrix::determinant for a 2x2 matrix
determinant(M) == RSub(RMul(M[0][0], M[1][1]), RMul(M[0][1], M[1][0]))


(***************************************************************************)
(* UpdateFlags (fe/fe_update_flags.h).  update_values is the "values" tag  *)
(* of the specification; fe_values.cc never tests it.                      *)
(***************************************************************************)
UpdateFlags ==
  {"update_values", "update_q_points", "update_gradients", "update_jacobians",
   "update_JxW_values", "update_ansatz_points", "update_normal_vectors"}

(***************************************************************************)
(* Collaborators that fe_values.cc only calls: Quadrature, FiniteElement   *)
(* and the cell geometry behind FiniteElement::fill_fe_values.             *)
(***************************************************************************)
\* Quadrature<dim>: n points inside the unit square, weights summing to one
Quadrature(n) ==
  [n_quadrature_points |-> n,
   quad_point |-> [j \in 0 .. (n - 1) |->
                     Point2(Rat(2 * j + 1, 2 * n), Rat(j + 1, n + 2))],
   weight |-> [j \in 0 .. (n - 1) |-> Rat(2 * (j + 1), n * (n + 1))]]

\* Quadrature<dim-1>: n points inside the unit interval
FaceQuadrature(n) ==
  [n_quadrature_points |-> n,
   quad_point |-> [j \in 0 .. (n - 1) |->
                     [s \in 0 .. (dim - 2) |-> Rat(2 * j + 1, 2 * n)]],
   weight |-> [j \in 0 .. (n - 1) |-> Rat(2 * (j + 1), n * (n + 1))]]

\* FiniteElement<2>::total_dofs of the bilinear element
fe_total_dofs == 4

\* FiniteElement<2>::shape_value(i, p): the four bilinear basis functions
fe_shape_value(i, p) ==
  LET x == p[0]
      y == p[1]
      cx == RSub(One, p[0])
      cy == RSub(One, p[1])
  IN  CASE i = 0 -> RMul(cx, cy)
        [] i = 1 -> RMul(x, cy)
        [] i = 2 -> RMul(x, y)
        [] OTHER -> RMul(cx, y)

\* FiniteElement<2>::shape_grad(i, p): their gradients on the unit cell
fe_shape_grad(i, p) ==
  LET x == p[0]
      y == p[1]
      cx == RSub(One, p[0])
      cy == RSub(One, p[1])
  IN  CASE i = 0 -> Point2(RSub(Zero, cy), RSub(Zero, cx))
        [] i = 1 -> Point2(cy, RSub(Zero, x))
        [] i = 2 -> Point2(y, x)
        [] OTHER -> Point2(RSub(Zero, y), cx)

\* the cells of the triangulation that reinit is called with:
\*   "unit"   x = xi,                     y = eta
\*   "scaled" x = 2 xi,                   y = 2 eta
\*   "skew"   x = xi + xi^2/2 + 3/4 eta,  y = eta
Cells == {"unit", "scaled", "skew"}

\* the point of the real cell that the unit point p is mapped to
MapPoint(cell, p) ==
  CASE cell = "unit" -> p
    [] cell = "scaled" -> Point2(RMul(Rat(2, 1), p[0]), RMul(Rat(2, 1), p[1]))
    [] OTHER ->
         Point2(RAdd(RAdd(p[0], RMul(Rat(1, 2), RMul(p[0], p[0]))),
                     RMul(Rat(3, 4), p[1])),
                p[1])

\* J_{ij} = d xi_i / d x_j at the unit point p
CellJacobian(cell, p) ==
  CASE cell = "unit" -> Identity
    [] cell = "scaled" -> Matrix2(Rat(1, 2), Zero, Zero, Rat(1, 2))
    [] OTHER ->
         LET a == RAdd(One, p[0])
         IN  Matrix2(RDiv(One, a), RDiv(Rat(-3, 4), a), Zero, One)

\* determinant of the transformation of unit face to real face at p
FaceJacobiDeterminant(cell, face_no, p) ==
  CASE cell = "unit" -> One
    [] cell = "scaled" -> Rat(2, 1)
    [] OTHER -> IF face_no \in {0, 2} THEN RAdd(One, p[0]) ELSE Rat(5, 4)

\* outward unit normal of face face_no
FaceNormal(cell, face_no) ==
  CASE face_no = 0 -> Point2(Zero, Rat(-1, 1))
    [] face_no = 2 -> Point2(Zero, One)
    [] face_no = 1 ->
         IF cell = "skew" THEN Point2(Rat(4, 5), Rat(-3, 5)) ELSE Point2(One, Zero)
    [] OTHER ->
         IF cell = "skew" THEN Point2(Rat(-4, 5), Rat(3, 5))
         ELSE Point2(Rat(-1, 1), Zero)

\* the unit cell's vertices, where the bilinear ansatz functions are located
UnitVertex(i) ==
  CASE i = 0 -> Point2(Zero, Zero)
    [] i = 1 -> Point2(One, Zero)
    [] i = 2 -> Point2(One, One)
    [] OTHER -> Point2(Zero, One)

\* FiniteElement<dim>::fill_fe_values: each array is filled when its flag is set
fill_fe_values(cell, unit_points, jacobians, update_jacobians, ansatz_points, update_ansatz_points, q_points, update_q_points) ==
  [jacobians |->
     IF update_jacobians
     THEN [j \in DOMAIN jacobians |-> CellJacobian(cell, unit_points[j])]
     ELSE jacobians,
   ansatz_points |->
     IF update_ansatz_points
     THEN [i \in DOMAIN ansatz_points |-> MapPoint(cell, UnitVertex(i))]
     ELSE ansatz_points,
   q_points |->
     IF update_q_points
     THEN [j \in DOMAIN q_points |-> MapPoint(cell, unit_points[j])]
     ELSE q_points]

\* FiniteElement<dim>::fill_fe_face_values
fill_fe_face_values(cell, face_no, unit_points, global_unit_points, jacobians, update_jacobians, ansatz_points, update_ansatz_points, q_points, update_q_points, face_jacobi_determinants, update_face_jacobians, normal_vectors, update_normal_vectors) ==
  [jacobians |->
     IF update_jacobians
     THEN [j \in DOMAIN jacobians |-> CellJacobian(cell, global_unit_points[j])]
     ELSE jacobians,
   ansatz_points |->
     IF update_ansatz_points
     THEN [i \in DOMAIN ansatz_points |-> MapPoint(cell, UnitVertex(i))]
     ELSE ansatz_points,
   q_points |->
     IF update_q_points
     THEN [j \in DOMAIN q_points |-> MapPoint(cell, global_unit_points[j])]
     ELSE q_points,
   face_jacobi_determinants |->
     IF update_face_jacobians
     THEN [j \in DOMAIN face_jacobi_determinants |->
             FaceJacobiDeterminant(cell, face_no, global_unit_points[j])]
     ELSE face_jacobi_determinants,
   normal_vectors |->
     IF update_normal_vectors
     THEN [j \in DOMAIN normal_vectors |-> FaceNormal(cell, face_no)]
     ELSE normal_vectors]


(***************************************************************************)
(* Assert (base/exceptions.h): the condition is tested in debug mode only; *)
(* a failed Assert aborts the program with the exception it names.        *)
(***************************************************************************)
Return(v) == [exc |-> "none", arg1 |-> 0, arg2 |-> 0, val |-> v]
Throw(e, a1, a2) == [exc |-> e, arg1 |-> a1, arg2 |-> a2, val |-> Zero]

\* what a read past the end of an array may give when no Assert stops it
OutOfBounds(garbage) ==
  {Return(g) : g \in garbage} \cup {Throw("SIGSEGV", 0, 0)}

(***************************************************************************)
(* FEValues<dim>                                                           *)
(***************************************************************************)
\* a constructor that evaluates every shape function at the first quadrature
\* point only
FEValues_shape_values_at_first_point(quadrature) ==
  [i \in 0 .. (fe_total_dofs - 1) |->
     [j \in 0 .. (quadrature.n_quadrature_points - 1) |->
        fe_shape_value(i, quadrature.quad_point[0])]]

\* the constructor's loop over i and j, the shape_values(i,j) it stores
FEValues_shape_values(quadrature) ==
  [i \in 0 .. (fe_total_dofs - 1) |->
     [j \in 0 .. (quadrature.n_quadrature_points - 1) |->
        fe_shape_value(i, quadrature.quad_point[j])]]

\* FEValues<dim>::FEValues
FEValues_ctor(quadrature, update_flags) ==
  LET n == quadrature.n_quadrature_points
      Q == 0 .. (n - 1)
      D == 0 .. (fe_total_dofs - 1)
  IN  [n_quadrature_points |-> n,
       total_dofs |-> fe_total_dofs,
       shape_values |-> FEValues_shape_values(quadrature),
       shape_gradients |-> [i \in D |-> [j \in Q |-> PointZero]],
       unit_shape_gradients |->
         [i \in D |-> [j \in Q |-> fe_shape_grad(i, quadrature.quad_point[j])]],
       weights |-> [i \in Q |-> quadrature.weight[i]],
       JxW_values |-> [i \in Q |-> Zero],
       quadrature_points |-> [i \in Q |-> PointZero],
       unit_quadrature_points |-> [i \in Q |-> quadrature.quad_point[i]],
       ansatz_points |-> [i \in D |-> PointZero],
       jacobi_matrices |-> [i \in Q |-> MatrixZero],
       update_flags |-> update_flags]

\* FEValues<dim>::shape_value
FEValues_shape_value(self, i, j, dbg) ==
  LET m == self.total_dofs
      n == self.n_quadrature_points
  IN  IF dbg /\ ~(i < m) THEN {Throw("ExcInvalidIndex", i, m)}
      ELSE IF dbg /\ ~(j < n) THEN {Throw("ExcInvalidIndex", j, n)}
      ELSE IF i < m /\ j < n THEN {Return(self.shape_values[i][j])}
      ELSE OutOfBounds({Zero, One})

\* FEValues<dim>::shape_grad
FEValues_shape_grad(self, i, j, dbg) ==
  LET m == self.total_dofs
      n == self.n_quadrature_points
  IN  IF dbg /\ ~(i < m) THEN {Throw("ExcInvalidIndex", i, m)}
      ELSE IF dbg /\ ~(j < n) THEN {Throw("ExcInvalidIndex", j, n)}
      ELSE IF dbg /\ "update_gradients" \notin self.update_flags
        THEN {Throw("ExcAccessToUninitializedField", 0, 0)}
      ELSE IF i < m /\ j < n THEN {Return(self.shape_gradients[i][j])}
      ELSE OutOfBounds({PointZero})

\* FEValues<dim>::quadrature_point
FEValues_quadrature_point(self, i, dbg) ==
  LET n == self.n_quadrature_points
  IN  IF dbg /\ ~(i < n) THEN {Throw("ExcInvalidIndex", i, n)}
      ELSE IF dbg /\ "update_q_points" \notin self.update_flags
        THEN {Throw("ExcAccessToUninitializedField", 0, 0)}
      ELSE IF i < n THEN {Return(self.quadrature_points[i])}
      ELSE OutOfBounds({PointZero})

\* FEValues<dim>::ansatz_point
FEValues_ansatz_point(self, i, dbg) ==
  LET n == self.total_dofs
  IN  IF dbg /\ ~(i < n) THEN {Throw("ExcInvalidIndex", i, n)}
      ELSE IF dbg /\ "update_ansatz_points" \notin self.update_flags
        THEN {Throw("ExcAccessToUninitializedField", 0, 0)}
      ELSE IF i < n THEN {Return(self.ansatz_points[i])}
      ELSE OutOfBounds({PointZero})

\* JxW with a check that reinit has set the value it returns
FEValues_JxW_of_a_reinit_only(self, i, dbg) ==
  LET n == self.n_quadrature_points
  IN  IF dbg /\ ~(i < n) THEN {Throw("ExcInvalidIndex", i, n)}
      ELSE IF dbg /\ "update_JxW_values" \notin self.update_flags
        THEN {Throw("ExcAccessToUninitializedField", 0, 0)}
      ELSE IF i < n /\ self.JxW_values[i] = Zero
        THEN {Throw("ExcAccessToUninitializedField", 0, 0)}
      ELSE IF i < n THEN {Return(self.JxW_values[i])}
      ELSE OutOfBounds({Zero, One})

\* FEValues<dim>::JxW
FEValues_JxW(self, i, dbg) ==
  LET n == self.n_quadrature_points
  IN  IF dbg /\ ~(i < n) THEN {Throw("ExcInvalidIndex", i, n)}
      ELSE IF dbg /\ "update_JxW_values" \notin self.update_flags
        THEN {Throw("ExcAccessToUninitializedField", 0, 0)}
      ELSE IF i < n THEN {Return(self.JxW_values[i])}
      ELSE OutOfBounds({Zero, One})

\* FEValues<dim>::get_shape_values
FEValues_get_shape_values(self, dbg) == {Return(self.shape_values)}

\* FEValues<dim>::get_shape_grads
FEValues_get_shape_grads(self, dbg) ==
  IF dbg /\ "update_gradients" \notin self.update_flags
  THEN {Throw("ExcAccessToUninitializedField", 0, 0)}
  ELSE {Return(self.shape_gradients)}

\* FEValues<dim>::get_quadrature_points
FEValues_get_quadrature_points(self, dbg) ==
  IF dbg /\ "update_q_points" \notin self.update_flags
  THEN {Throw("ExcAccessToUninitializedField", 0, 0)}
  ELSE {Return(self.quadrature_points)}

\* FEValues<dim>::get_ansatz_points
FEValues_get_ansatz_points(self, dbg) ==
  IF dbg /\ "update_ansatz_points" \notin self.update_flags
  THEN {Throw("ExcAccessToUninitializedField", 0, 0)}
  ELSE {Return(self.ansatz_points)}

\* FEValues<dim>::get_JxW_values
FEValues_get_JxW_values(self, dbg) ==
  IF dbg /\ "update_JxW_values" \notin self.update_flags
  THEN {Throw("ExcAccessToUninitializedField", 0, 0)}
  ELSE {Return(self.JxW_values)}

\* sum over b of unit_grad(b) * J(b,s), b running over 0..dim-1 from an
\* accumulator that starts at acc
RECURSIVE SumB(_, _, _, _, _)
SumB(acc, unit_grad, J, s, b) ==
  IF b = dim THEN acc
  ELSE SumB(RAdd(acc, RMul(unit_grad[b], J[b][s])), unit_grad, J, s, b + 1)

\* the loop over s with the factor jacobi_matrices[j](s,b)
real_gradient_transposed(old, unit_grad, J) ==
  [s \in Components |->
     SumB(Zero, unit_grad,
          [b \in Components |-> [t \in Components |-> J[t][b]]], s, 0)]

\* the loop over s without "shape_gradients[i][j](s) = 0"
real_gradient_accumulating(old, unit_grad, J) ==
  [s \in Components |-> SumB(old[s], unit_grad, J, s, 0)]

\* the loop over s of reinit: the gradient on the real cell.  old is the
\* entry of shape_gradients before the loop, which the loop resets to 0
real_gradient(old, unit_grad, J) ==
  [s \in Components |-> SumB(Zero, unit_grad, J, s, 0)]

\* JxW as weight times the determinant of the Jacobi matrix
FEValues_JxW_value_times_determinant(weight, J) ==
  RMul(weight, determinant(J))

\* the loop body of reinit that sets JxW_values[i]
FEValues_JxW_value(weight, J) == RDiv(weight, determinant(J))

\* a reinit that marks the fields it was handed as requested
FEValues_store_requesting_fields(self, r) ==
  [self EXCEPT !.jacobi_matrices = r.jacobians,
               !.ansatz_points = r.ansatz_points,
               !.quadrature_points = r.q_points,
               !.update_flags = self.update_flags \cup
                  {"update_jacobians", "update_q_points",
                   "update_ansatz_points"}]

\* reinit, the call of fe.fill_fe_values and what it stores
FEValues_store(self, r) ==
  [self EXCEPT !.jacobi_matrices = r.jacobians,
               !.ansatz_points = r.ansatz_points,
               !.quadrature_points = r.q_points]

\* the call of fill_fe_values with one indicator for the three arrays
FEValues_fill_with_one_indicator(self, cell) ==
  IF self.update_flags \cap {"update_jacobians", "update_q_points",
                             "update_ansatz_points"} # {}
  THEN FEValues_store(self,
         fill_fe_values(cell, self.unit_quadrature_points,
           self.jacobi_matrices, TRUE, self.ansatz_points, TRUE,
           self.quadrature_points, TRUE))
  ELSE self

FEValues_fill(self, cell) ==
  IF self.update_flags \cap {"update_jacobians", "update_q_points",
                             "update_ansatz_points"} # {}
  THEN FEValues_store(self,
         fill_fe_values(cell, self.unit_quadrature_points,
           self.jacobi_matrices, "update_jacobians" \in self.update_flags,
           self.ansatz_points, "update_ansatz_points" \in self.update_flags,
           self.quadrature_points, "update_q_points" \in self.update_flags))
  ELSE self

\* the loops transforming shape_gradients, not unit_shape_gradients
FEValues_gradients_of_shape_gradients(self) ==
  [self EXCEPT !.shape_gradients =
     [i \in 0 .. (fe_total_dofs - 1) |->
        [j \in 0 .. (self.n_quadrature_points - 1) |->
           real_gradient(self.shape_gradients[i][j],
                         self.shape_gradients[i][j],
                         self.jacobi_matrices[j])]]]

\* the loops writing the transformed gradients over the gradients on the
\* unit cell
FEValues_gradients_into_unit_gradients(self) ==
  [self EXCEPT !.unit_shape_gradients =
     [i \in 0 .. (fe_total_dofs - 1) |->
        [j \in 0 .. (self.n_quadrature_points - 1) |->
           real_gradient(self.shape_gradients[i][j],
                         self.unit_shape_gradients[i][j],
                         self.jacobi_matrices[j])]]]

\* reinit, the loops that compute the gradients on the real element
FEValues_gradients(self) ==
  [self EXCEPT !.shape_gradients =
     [i \in 0 .. (fe_total_dofs - 1) |->
        [j \in 0 .. (self.n_quadrature_points - 1) |->
           real_gradient(self.shape_gradients[i][j],
                         self.unit_shape_gradients[i][j],
                         self.jacobi_matrices[j])]]]

\* reinit, the loop that computes the JxW values
FEValues_JxW_values(self) ==
  [self EXCEPT !.JxW_values =
     [i \in 0 .. (self.n_quadrature_points - 1) |->
        FEValues_JxW_value(self.weights[i], self.jacobi_matrices[i])]]

\* reinit computing the JxW values without the Assert that the Jacobians were
\* requested
FEValues_reinit_JxW_unchecked(self, dbg) ==
  IF "update_JxW_values" \in self.update_flags
  THEN [obj |-> FEValues_JxW_values(self), out |-> Return(Zero)]
  ELSE [obj |-> self, out |-> Return(Zero)]

\* reinit from "if (update_flags & update_JxW_values)" on
FEValues_reinit_JxW(self, dbg) ==
  IF "update_JxW_values" \in self.update_flags
  THEN IF dbg /\ "update_jacobians" \notin self.update_flags
       THEN [obj |-> self, out |-> Throw("ExcCannotInitializeField", 0, 0)]
       ELSE [obj |-> FEValues_JxW_values(self), out |-> Return(Zero)]
  ELSE [obj |-> self, out |-> Return(Zero)]

\* reinit running the gradient loops whether update_gradients is set or not
FEValues_reinit_gradients_always(self, dbg) ==
  FEValues_reinit_JxW(FEValues_gradients(self), dbg)

\* reinit computing the gradients without the Assert that the Jacobians were
\* requested
FEValues_reinit_gradients_unchecked(self, dbg) ==
  IF "update_gradients" \in self.update_flags
  THEN FEValues_reinit_JxW(FEValues_gradients(self), dbg)
  ELSE FEValues_reinit_JxW(self, dbg)

\* reinit from "if (update_flags & update_gradients)" on
FEValues_reinit_gradients(self, dbg) ==
  IF "update_gradients" \in self.update_flags
  THEN IF dbg /\ "update_jacobians" \notin self.update_flags
       THEN [obj |-> self, out |-> Throw("ExcCannotInitializeField", 0, 0)]
       ELSE FEValues_reinit_JxW(FEValues_gradients(self), dbg)
  ELSE FEValues_reinit_JxW(self, dbg)

\* FEValues<dim>::reinit
FEValues_reinit(self, cell, dbg) ==
  FEValues_reinit_gradients(FEValues_fill(self, cell), dbg)

(***************************************************************************)
(* FEFaceValues<dim>                                                       *)
(***************************************************************************)
Faces == 0 .. (2 * dim - 1)

\* the switch (face) of the constructor for dim = 2: the point of the unit
\* cell that the point unit_point of the unit face is on face number face
global_unit_point(face, unit_point) ==
  CASE face = 0 -> Point2(unit_point[0], Zero)
    [] face = 1 -> Point2(One, unit_point[0])
    [] face = 2 -> Point2(unit_point[0], One)
    [] OTHER -> Point2(Zero, unit_point[0])

\* the value of unit_quadrature_points that the loop over the faces of the
\* constructor reads: the member as the initializer list left it; the copy
\* of the quadrature formula's points is made by the loop after it
unit_points_read_by_face_loop(quadrature) ==
  [p \in 0 .. (quadrature.n_quadrature_points - 1) |->
     [s \in 0 .. (dim - 2) |-> Zero]]

\* the loop over the faces and the points of the constructor, without the
\* default label of switch (dim)
FEFaceValues_face_loop_without_default(d, n, dbg) == Return(Zero)

\* the loop over the faces and the points of the constructor, instantiated
\* for dimension d with n quadrature points: for d = 2 every pass assigns a
\* point, for any other d the first pass reaches Assert (false,
\* ExcNotImplemented())
FEFaceValues_face_loop(d, n, dbg) ==
  IF d # 2 /\ dbg /\ n > 0
  THEN Throw("ExcNotImplemented", 0, 0) ELSE Return(Zero)

\* FEFaceValues<dim>::FEFaceValues
FEFaceValues_ctor(quadrature, update_flags, dbg) ==
  LET n == quadrature.n_quadrature_points
      Q == 0 .. (n - 1)
      D == 0 .. (fe_total_dofs - 1)
      read == unit_points_read_by_face_loop(quadrature)
      global == [face \in Faces |-> [p \in Q |->
                   IF dim = 2 THEN global_unit_point(face, read[p])
                   ELSE PointZero]]
  IN  [obj |->
         [n_quadrature_points |-> n,
          total_dofs |-> fe_total_dofs,
          shape_values |->
            [face \in Faces |-> [i \in D |-> [j \in Q |->
               fe_shape_value(i, global[face][j])]]],
          shape_gradients |-> [i \in D |-> [j \in Q |-> PointZero]],
          unit_shape_gradients |->
            [face \in Faces |-> [i \in D |-> [j \in Q |->
               fe_shape_grad(i, global[face][j])]]],
          weights |-> [i \in Q |-> quadrature.weight[i]],
          JxW_values |-> [i \in Q |-> Zero],
          quadrature_points |-> [i \in Q |-> PointZero],
          unit_quadrature_points |-> [i \in Q |-> quadrature.quad_point[i]],
          global_unit_quadrature_points |-> global,
          ansatz_points |-> [i \in D |-> PointZero],
          jacobi_matrices |-> [i \in Q |-> MatrixZero],
          face_jacobi_determinants |-> [i \in Q |-> Zero],
          normal_vectors |-> [i \in Q |-> PointZero],
          update_flags |-> update_flags,
          selected_face |-> 0],
       out |-> FEFaceValues_face_loop(dim, n, dbg)]

\* shape_value reading the table of face 0 whatever face is selected
FEFaceValues_shape_value_of_face_0(self, i, j, dbg) ==
  LET m == self.total_dofs
      n == self.n_quadrature_points
  IN  IF dbg /\ ~(i < m) THEN {Throw("ExcInvalidIndex", i, m)}
      ELSE IF dbg /\ ~(j < n) THEN {Throw("ExcInvalidIndex", j, n)}
      ELSE IF i < m /\ j < n THEN {Return(self.shape_values[0][i][j])}
      ELSE OutOfBounds({Zero, One})

\* FEFaceValues<dim>::shape_value
\* shape_values has 2*dim elements: with any other selected_face the matrix
\* read, its sizes m() and n() in the Asserts included, is past the end
FEFaceValues_shape_value(self, i, j, dbg) ==
  LET m == self.total_dofs
      n == self.n_quadrature_points
  IN  IF self.selected_face \notin DOMAIN self.shape_values
      THEN OutOfBounds({Zero, One})
             \cup (IF dbg THEN {Throw("ExcInvalidIndex", i, 0),
                                Throw("ExcInvalidIndex", j, 0)}
                          ELSE {})
      ELSE IF dbg /\ ~(i < m) THEN {Throw("ExcInvalidIndex", i, m)}
      ELSE IF dbg /\ ~(j < n) THEN {Throw("ExcInvalidIndex", j, n)}
      ELSE IF i < m /\ j < n
        THEN {Return(self.shape_values[self.selected_face][i][j])}
      ELSE OutOfBounds({Zero, One})

\* FEFaceValues<dim>::shape_grad
FEFaceValues_shape_grad(self, i, j, dbg) ==
  LET m == self.total_dofs
      n == self.n_quadrature_points
  IN  IF dbg /\ ~(i < m) THEN {Throw("ExcInvalidIndex", i, m)}
      ELSE IF dbg /\ ~(j < n) THEN {Throw("ExcInvalidIndex", j, n)}
      ELSE IF dbg /\ "update_gradients" \notin self.update_flags
        THEN {Throw("ExcAccessToUninitializedField", 0, 0)}
      ELSE IF i < m /\ j < n THEN {Return(self.shape_gradients[i][j])}
      ELSE OutOfBounds({PointZero})

\* quadrature_point without the Assert on update_q_points
FEFaceValues_quadrature_point_unchecked(self, i, dbg) ==
  LET n == self.n_quadrature_points
  IN  IF dbg /\ ~(i < n) THEN {Throw("ExcInvalidIndex", i, n)}
      ELSE IF i < n THEN {Return(self.quadrature_points[i])}
      ELSE OutOfBounds({PointZero})

\* FEFaceValues<dim>::quadrature_point
FEFaceValues_quadrature_point(self, i, dbg) ==
  LET n == self.n_quadrature_points
  IN  IF dbg /\ ~(i < n) THEN {Throw("ExcInvalidIndex", i, n)}
      ELSE IF dbg /\ "update_q_points" \notin self.update_flags
        THEN {Throw("ExcAccessToUninitializedField", 0, 0)}
      ELSE IF i < n THEN {Return(self.quadrature_points[i])}
      ELSE OutOfBounds({PointZero})

\* ansatz_point without the Assert on the index
FEFaceValues_ansatz_point_any_index(self, i, dbg) ==
  LET n == self.total_dofs
  IN  IF dbg /\ "update_ansatz_points" \notin self.update_flags
        THEN {Throw("ExcAccessToUninitializedField", 0, 0)}
      ELSE IF i < n THEN {Return(self.ansatz_points[i])}
      ELSE OutOfBounds({PointZero})

\* FEFaceValues<dim>::ansatz_point
FEFaceValues_ansatz_point(self, i, dbg) ==
  LET n == self.total_dofs
  IN  IF dbg /\ ~(i < n) THEN {Throw("ExcInvalidIndex", i, n)}
      ELSE IF dbg /\ "update_ansatz_points" \notin self.update_flags
        THEN {Throw("ExcAccessToUninitializedField", 0, 0)}
      ELSE IF i < n THEN {Return(self.ansatz_points[i])}
      ELSE OutOfBounds({PointZero})

\* FEFaceValues<dim>::normal_vector
FEFaceValues_normal_vector(self, i, dbg) ==
  LET n == self.n_quadrature_points
  IN  IF dbg /\ ~(i < n) THEN {Throw("ExcInvalidIndex", i, n)}
      ELSE IF dbg /\ "update_normal_vectors" \notin self.update_flags
        THEN {Throw("ExcAccessToUninitializedField", 0, 0)}
      ELSE IF i < n THEN {Return(self.normal_vectors[i])}
      ELSE OutOfBounds({PointZero})

\* FEFaceValues<dim>::JxW
FEFaceValues_JxW(self, i, dbg) ==
  LET n == self.n_quadrature_points
  IN  IF dbg /\ ~(i < n) THEN {Throw("ExcInvalidIndex", i, n)}
      ELSE IF dbg /\ "update_JxW_values" \notin self.update_flags
        THEN {Throw("ExcAccessToUninitializedField", 0, 0)}
      ELSE IF i < n THEN {Return(self.JxW_values[i])}
      ELSE OutOfBounds({Zero, One})

\* FEFaceValues<dim>::get_shape_values
FEFaceValues_get_shape_values(self, dbg) ==
  IF self.selected_face \notin DOMAIN self.shape_values
  THEN OutOfBounds({self.shape_values[f] : f \in DOMAIN self.shape_values})
  ELSE {Return(self.shape_values[self.selected_face])}

\* FEFaceValues<dim>::get_shape_grads
FEFaceValues_get_shape_grads(self, dbg) ==
  IF dbg /\ "update_gradients" \notin self.update_flags
  THEN {Throw("ExcAccessToUninitializedField", 0, 0)}
  ELSE {Return(self.shape_gradients)}

\* FEFaceValues<dim>::get_quadrature_points
FEFaceValues_get_quadrature_points(self, dbg) ==
  IF dbg /\ "update_q_points" \notin self.update_flags
  THEN {Throw("ExcAccessToUninitializedField", 0, 0)}
  ELSE {Return(self.quadrature_points)}

\* FEFaceValues<dim>::get_ansatz_points
FEFaceValues_get_ansatz_points(self, dbg) ==
  IF dbg /\ "update_ansatz_points" \notin self.update_flags
  THEN {Throw("ExcAccessToUninitializedField", 0, 0)}
  ELSE {Return(self.ansatz_points)}

\* FEFaceValues<dim>::get_JxW_values
FEFaceValues_get_JxW_values(self, dbg) ==
  IF dbg /\ "update_JxW_values" \notin self.update_flags
  THEN {Throw("ExcAccessToUninitializedField", 0, 0)}
  ELSE {Return(self.JxW_values)}

\* FEFaceValues<dim>::get_normal_vectors
FEFaceValues_get_normal_vectors(self, dbg) ==
  IF dbg /\ "update_normal_vectors" \notin self.update_flags
  THEN {Throw("ExcAccessToUninitializedField", 0, 0)}
  ELSE {Return(self.normal_vectors)}

\* JxW computed as FEValues does, from the Jacobi matrix of the cell
FEFaceValues_JxW_value_by_cell_determinant(weight, face_jacobi_determinant, J) ==
  RDiv(weight, determinant(J))

\* the loop body of reinit that sets JxW_values[i]; J is jacobi_matrices[i]
FEFaceValues_JxW_value(weight, face_jacobi_determinant, J) ==
  RMul(weight, face_jacobi_determinant)

\* the gradient loop reading the table of the face selected before this call
gradient_face_selected_before(face_no, old_selected_face) == old_selected_face

\* the face whose unit_shape_gradients the gradient loop of reinit reads
gradient_face(face_no, old_selected_face) == face_no

\* reinit, the call of fe.fill_fe_face_values and what it stores
FEFaceValues_store(self, r) ==
  [self EXCEPT !.jacobi_matrices = r.jacobians,
               !.ansatz_points = r.ansatz_points,
               !.quadrature_points = r.q_points,
               !.face_jacobi_determinants = r.face_jacobi_determinants,
               !.normal_vectors = r.normal_vectors]

FEFaceValues_fill(self, cell, face_no) ==
  IF self.update_flags \cap {"update_jacobians", "update_q_points",
                             "update_ansatz_points", "update_JxW_values"} # {}
  THEN FEFaceValues_store(self,
         fill_fe_face_values(cell, face_no,
           self.unit_quadrature_points,
           self.global_unit_quadrature_points[face_no],
           self.jacobi_matrices, "update_jacobians" \in self.update_flags,
           self.ansatz_points, "update_ansatz_points" \in self.update_flags,
           self.quadrature_points, "update_q_points" \in self.update_flags,
           self.face_jacobi_determinants,
           "update_JxW_values" \in self.update_flags,
           self.normal_vectors, "update_normal_vectors" \in self.update_flags))
  ELSE self

\* reinit, the loops that compute the gradients on the real element;
\* old_face is selected_face as it was when reinit was called
FEFaceValues_gradients(self, face_no, old_face) ==
  [self EXCEPT !.shape_gradients =
     [i \in 0 .. (fe_total_dofs - 1) |->
        [j \in 0 .. (self.n_quadrature_points - 1) |->
           real_gradient(
             self.shape_gradients[i][j],
             self.unit_shape_gradients[gradient_face(face_no, old_face)][i][j],
             self.jacobi_matrices[j])]]]

\* reinit, the loop that computes the JxW values
FEFaceValues_JxW_values(self) ==
  [self EXCEPT !.JxW_values =
     [i \in 0 .. (self.n_quadrature_points - 1) |->
        FEFaceValues_JxW_value(self.weights[i],
                               self.face_jacobi_determinants[i],
                               self.jacobi_matrices[i])]]

\* reinit from "if (update_flags & update_JxW_values)" on
FEFaceValues_reinit_JxW(self, dbg) ==
  IF "update_JxW_values" \in self.update_flags
  THEN IF dbg /\ "update_jacobians" \notin self.update_flags
       THEN [obj |-> self, out |-> Throw("ExcCannotInitializeField", 0, 0)]
       ELSE [obj |-> FEFaceValues_JxW_values(self), out |-> Return(Zero)]
  ELSE [obj |-> self, out |-> Return(Zero)]

\* reinit from "if (update_flags & update_gradients)" on
FEFaceValues_reinit_gradients(self, face_no, old_face, dbg) ==
  IF "update_gradients" \in self.update_flags
  THEN IF dbg /\ "update_jacobians" \notin self.update_flags
       THEN [obj |-> self, out |-> Throw("ExcCannotInitializeField", 0, 0)]
       ELSE FEFaceValues_reinit_JxW(
              FEFaceValues_gradients(self, face_no, old_face), dbg)
  ELSE FEFaceValues_reinit_JxW(self, dbg)

\* FEFaceValues<dim>::reinit
FEFaceValues_reinit(self, cell, face_no, dbg) ==
  FEFaceValues_reinit_gradients(
    FEFaceValues_fill([self EXCEPT !.selected_face = face_no], cell, face_no),
    face_no, self.selected_face, dbg)

\* the values of the parameter "const unsigned int face_no" of reinit
UnsignedFaces == 0 .. (2 * dim - 1 + MaxOver)

\* FEFaceValues<dim>::reinit for any face_no.  Nothing compares face_no with
\* the number of faces: selected_face is assigned, and with a face_no that is
\* not a face the reads of global_unit_quadrature_points[face_no] and of
\* unit_shape_gradients[face_no] are past the end of arrays of 2*dim
\* elements; they fault or give what the memory behind the array holds,
\* which is written here as the table of some face g.  A reinit that reads
\* neither array returns.
FEFaceValues_reinit_any_face(self, cell, face_no, dbg) ==
  IF face_no \in Faces
  THEN {FEFaceValues_reinit(self, cell, face_no, dbg)}
  ELSE IF self.update_flags \cap {"update_jacobians", "update_q_points",
                                  "update_ansatz_points", "update_JxW_values",
                                  "update_gradients"} = {}
  THEN {[obj |-> [self EXCEPT !.selected_face = face_no],
         out |-> Return(Zero)]}
  ELSE {[obj |-> [self EXCEPT !.selected_face = face_no],
         out |-> Throw("SIGSEGV", 0, 0)]}
       \cup
       {[obj |-> [FEFaceValues_reinit(self, cell, g, dbg).obj
                    EXCEPT !.selected_face = face_no],
         out |-> FEFaceValues_reinit(self, cell, g, dbg).out] : g \in Faces}

(***************************************************************************)
(* The program: one evaluator is constructed, then reinit and the          *)
(* accessors are called on it in any order until an Assert fails.          *)
(***************************************************************************)
VARIABLES
  debug,           \* the library is compiled in debug mode (Assert is active)
  evaluator,       \* the class the program uses: "FEValues" or "FEFaceValues"
  fe_values,       \* the FEValues<dim> object
  fe_face_values,  \* the FEFaceValues<dim> object
  present_cell,    \* the cell of the last reinit, "none" before the first
  call,            \* the constructor, the last reinit or the call that aborted
  first_reading,   \* what the accessors gave when they were last read
  since_reading,   \* the faces reinit was called with since then
  template_dim,    \* the dimension the class template is instantiated for
  threads,         \* where each thread of a two-thread program is in reinit
  problem,         \* the BoussinesqFlowProblem<dim> object
  run              \* the local variables of its run() and where run() is

vars == <<debug, evaluator, fe_values, fe_face_values, present_cell, call,
          first_reading, since_reading, template_dim, threads, problem, run>>

\* the indices the accessors are called with, for an array of size elements
Indices(size) == 0 .. (size - 1 + MaxOver)

Call(op, i, j, out) == [op |-> op, i |-> i, j |-> j, out |-> out]

running == call.out.exc = "none"
cell_running == evaluator = "FEValues" /\ running
face_running == evaluator = "FEFaceValues" /\ running

NoReading == [cell |-> "none", face |-> 0, obs |-> <<>>]

\* a program with one thread
NoThreads == <<>>

\* a program that has no BoussinesqFlowProblem
NoProblem == <<>>
NoRun == <<>>

\* the FEFaceValues object of a program that only uses FEValues, and the
\* FEValues object of one that only uses FEFaceValues
NoFEFaceValues == FEFaceValues_ctor(FaceQuadrature(1), {}, FALSE).obj
NoFEValues == FEValues_ctor(Quadrature(1), {})

(***************************************************************************)
(* A program using FEValues                                                *)
(***************************************************************************)
InitCell ==
  /\ debug \in BOOLEAN
  /\ evaluator = "FEValues"
  /\ \E n \in 1 .. MaxQ, flags \in SUBSET UpdateFlags :
       fe_values = FEValues_ctor(Quadrature(n), flags)
  /\ fe_face_values = NoFEFaceValues
  /\ present_cell = "none"
  /\ call = Call("FEValues", 0, 0, Return(Zero))
  /\ first_reading = NoReading
  /\ since_reading = <<>>
  /\ template_dim = dim
  /\ problem = NoProblem
  /\ run = NoRun
  /\ threads = NoThreads

\* reinit gave r: the object is as r.obj says, and the program goes on when
\* no Assert of reinit failed
Reinit(face_no, r, object) ==
  /\ object = r.obj
  /\ call' = Call("reinit", face_no, 0, r.out)

CellReinit ==
  /\ cell_running
  /\ \E cell \in Cells :
       /\ Reinit(0, FEValues_reinit(fe_values, cell, debug), fe_values')
       /\ present_cell' = cell
  /\ UNCHANGED <<problem, run, template_dim, threads, debug, evaluator, fe_face_values, first_reading, since_reading>>

\* an accessor is a const member function: when it returns, the program's
\* state is what it was; when an Assert of it fails (or the read past the end
\* of an array faults) the program is aborted by this call
Accessor(op, i, j, outcomes) ==
  \E out \in outcomes :
    call' = IF out.exc = "none" THEN call ELSE Call(op, i, j, out)

CellShapeValue ==
  /\ cell_running
  /\ \E i \in Indices(fe_total_dofs),
          j \in Indices(fe_values.n_quadrature_points) :
       Accessor("shape_value", i, j,
                FEValues_shape_value(fe_values, i, j, debug))
  /\ UNCHANGED <<problem, run, template_dim, threads, debug, evaluator, fe_values, fe_face_values, present_cell,
                 first_reading, since_reading>>

CellShapeGrad ==
  /\ cell_running
  /\ \E i \in Indices(fe_total_dofs),
          j \in Indices(fe_values.n_quadrature_points) :
       Accessor("shape_grad", i, j,
                FEValues_shape_grad(fe_values, i, j, debug))
  /\ UNCHANGED <<problem, run, template_dim, threads, debug, evaluator, fe_values, fe_face_values, present_cell,
                 first_reading, since_reading>>

CellQuadraturePoint ==
  /\ cell_running
  /\ \E i \in Indices(fe_values.n_quadrature_points) :
       Accessor("quadrature_point", i, 0,
                FEValues_quadrature_point(fe_values, i, debug))
  /\ UNCHANGED <<problem, run, template_dim, threads, debug, evaluator, fe_values, fe_face_values, present_cell,
                 first_reading, since_reading>>

CellAnsatzPoint ==
  /\ cell_running
  /\ \E i \in Indices(fe_total_dofs) :
       Accessor("ansatz_point", i, 0,
                FEValues_ansatz_point(fe_values, i, debug))
  /\ UNCHANGED <<problem, run, template_dim, threads, debug, evaluator, fe_values, fe_face_values, present_cell,
                 first_reading, since_reading>>

CellJxW ==
  /\ cell_running
  /\ \E i \in Indices(fe_values.n_quadrature_points) :
       Accessor("JxW", i, 0, FEValues_JxW(fe_values, i, debug))
  /\ UNCHANGED <<problem, run, template_dim, threads, debug, evaluator, fe_values, fe_face_values, present_cell,
                 first_reading, since_reading>>

CellGetShapeValues ==
  /\ cell_running
  /\ Accessor("get_shape_values", 0, 0, FEValues_get_shape_values(fe_values, debug))
  /\ UNCHANGED <<problem, run, template_dim, threads, debug, evaluator, fe_values, fe_face_values,
                 present_cell, first_reading, since_reading>>

CellGetShapeGrads ==
  /\ cell_running
  /\ Accessor("get_shape_grads", 0, 0, FEValues_get_shape_grads(fe_values, debug))
  /\ UNCHANGED <<problem, run, template_dim, threads, debug, evaluator, fe_values, fe_face_values,
                 present_cell, first_reading, since_reading>>

CellGetQuadraturePoints ==
  /\ cell_running
  /\ Accessor("get_quadrature_points", 0, 0, FEValues_get_quadrature_points(fe_values, debug))
  /\ UNCHANGED <<problem, run, template_dim, threads, debug, evaluator, fe_values, fe_face_values,
                 present_cell, first_reading, since_reading>>

CellGetAnsatzPoints ==
  /\ cell_running
  /\ Accessor("get_ansatz_points", 0, 0, FEValues_get_ansatz_points(fe_values, debug))
  /\ UNCHANGED <<problem, run, template_dim, threads, debug, evaluator, fe_values, fe_face_values,
                 present_cell, first_reading, since_reading>>

CellGetJxWValues ==
  /\ cell_running
  /\ Accessor("get_JxW_values", 0, 0, FEValues_get_JxW_values(fe_values, debug))
  /\ UNCHANGED <<problem, run, template_dim, threads, debug, evaluator, fe_values, fe_face_values,
                 present_cell, first_reading, since_reading>>

NextCell ==
  \/ CellReinit
  \/ CellShapeValue
  \/ CellShapeGrad
  \/ CellQuadraturePoint
  \/ CellAnsatzPoint
  \/ CellJxW
  \/ CellGetShapeValues
  \/ CellGetShapeGrads
  \/ CellGetQuadraturePoints
  \/ CellGetAnsatzPoints
  \/ CellGetJxWValues

SpecCell == InitCell /\ [][NextCell]_vars


(***************************************************************************)
(* A program using FEFaceValues                                            *)
(***************************************************************************)
Constructed(r) ==
  /\ fe_face_values = r.obj
  /\ call = Call("FEFaceValues", 0, 0, r.out)

InitFace ==
  /\ debug \in BOOLEAN
  /\ evaluator = "FEFaceValues"
  /\ \E n \in 1 .. MaxQ, flags \in SUBSET UpdateFlags :
       Constructed(FEFaceValues_ctor(FaceQuadrature(n), flags, debug))
  /\ fe_values = NoFEValues
  /\ present_cell = "none"
  /\ first_reading = NoReading
  /\ since_reading = <<>>
  /\ template_dim = dim
  /\ problem = NoProblem
  /\ run = NoRun
  /\ threads = NoThreads

FaceReinit ==
  /\ face_running
  /\ \E cell \in Cells, face_no \in Faces :
       /\ Reinit(face_no,
                 FEFaceValues_reinit(fe_face_values, cell, face_no, debug),
                 fe_face_values')
       /\ present_cell' = cell
  /\ UNCHANGED <<problem, run, template_dim, threads, debug, evaluator, fe_values, first_reading, since_reading>>

FaceShapeValue ==
  /\ face_running
  /\ \E i \in Indices(fe_total_dofs),
          j \in Indices(fe_face_values.n_quadrature_points) :
       Accessor("shape_value", i, j,
                FEFaceValues_shape_value(fe_face_values, i, j, debug))
  /\ UNCHANGED <<problem, run, template_dim, threads, debug, evaluator, fe_values, fe_face_values, present_cell,
                 first_reading, since_reading>>

FaceShapeGrad ==
  /\ face_running
  /\ \E i \in Indices(fe_total_dofs),
          j \in Indices(fe_face_values.n_quadrature_points) :
       Accessor("shape_grad", i, j,
                FEFaceValues_shape_grad(fe_face_values, i, j, debug))
  /\ UNCHANGED <<problem, run, template_dim, threads, debug, evaluator, fe_values, fe_face_values, present_cell,
                 first_reading, since_reading>>

FaceQuadraturePoint ==
  /\ face_running
  /\ \E i \in Indices(fe_face_values.n_quadrature_points) :
       Accessor("quadrature_point", i, 0,
                FEFaceValues_quadrature_point(fe_face_values, i, debug))
  /\ UNCHANGED <<problem, run, template_dim, threads, debug, evaluator, fe_values, fe_face_values, present_cell,
                 first_reading, since_reading>>

FaceAnsatzPoint ==
  /\ face_running
  /\ \E i \in Indices(fe_total_dofs) :
       Accessor("ansatz_point", i, 0,
                FEFaceValues_ansatz_point(fe_face_values, i, debug))
  /\ UNCHANGED <<problem, run, template_dim, threads, debug, evaluator, fe_values, fe_face_values, present_cell,
                 first_reading, since_reading>>

FaceNormalVector ==
  /\ face_running
  /\ \E i \in Indices(fe_face_values.n_quadrature_points) :
       Accessor("normal_vector", i, 0,
                FEFaceValues_normal_vector(fe_face_values, i, debug))
  /\ UNCHANGED <<problem, run, template_dim, threads, debug, evaluator, fe_values, fe_face_values, present_cell,
                 first_reading, since_reading>>

FaceJxW ==
  /\ face_running
  /\ \E i \in Indices(fe_face_values.n_quadrature_points) :
       Accessor("JxW", i, 0, FEFaceValues_JxW(fe_face_values, i, debug))
  /\ UNCHANGED <<problem, run, template_dim, threads, debug, evaluator, fe_values, fe_face_values, present_cell,
                 first_reading, since_reading>>

\* get_shape_values as a function that is not const and selects face 0
FaceGetShapeValues_selecting_face_0 ==
  /\ face_running
  /\ fe_face_values' = [fe_face_values EXCEPT !.selected_face = 0]
  /\ UNCHANGED <<problem, run, template_dim, threads, debug, evaluator, fe_values, call,
                 present_cell, first_reading, since_reading>>

FaceGetShapeValues ==
  /\ face_running
  /\ Accessor("get_shape_values", 0, 0, FEFaceValues_get_shape_values(fe_face_values, debug))
  /\ UNCHANGED <<problem, run, template_dim, threads, debug, evaluator, fe_values, fe_face_values,
                 present_cell, first_reading, since_reading>>

FaceGetShapeGrads ==
  /\ face_running
  /\ Accessor("get_shape_grads", 0, 0, FEFaceValues_get_shape_grads(fe_face_values, debug))
  /\ UNCHANGED <<problem, run, template_dim, threads, debug, evaluator, fe_values, fe_face_values,
                 present_cell, first_reading, since_reading>>

FaceGetQuadraturePoints ==
  /\ face_running
  /\ Accessor("get_quadrature_points", 0, 0, FEFaceValues_get_quadrature_points(fe_face_values, debug))
  /\ UNCHANGED <<problem, run, template_dim, threads, debug, evaluator, fe_values, fe_face_values,
                 present_cell, first_reading, since_reading>>

FaceGetAnsatzPoints ==
  /\ face_running
  /\ Accessor("get_ansatz_points", 0, 0, FEFaceValues_get_ansatz_points(fe_face_values, debug))
  /\ UNCHANGED <<problem, run, template_dim, threads, debug, evaluator, fe_values, fe_face_values,
                 present_cell, first_reading, since_reading>>

FaceGetJxWValues ==
  /\ face_running
  /\ Accessor("get_JxW_values", 0, 0, FEFaceValues_get_JxW_values(fe_face_values, debug))
  /\ UNCHANGED <<problem, run, template_dim, threads, debug, evaluator, fe_values, fe_face_values,
                 present_cell, first_reading, since_reading>>

FaceGetNormalVectors ==
  /\ face_running
  /\ Accessor("get_normal_vectors", 0, 0, FEFaceValues_get_normal_vectors(fe_face_values, debug))
  /\ UNCHANGED <<problem, run, template_dim, threads, debug, evaluator, fe_values, fe_face_values,
                 present_cell, first_reading, since_reading>>

NextFace ==
  \/ FaceReinit
  \/ FaceShapeValue
  \/ FaceShapeGrad
  \/ FaceQuadraturePoint
  \/ FaceAnsatzPoint
  \/ FaceNormalVector
  \/ FaceJxW
  \/ FaceGetShapeValues
  \/ FaceGetShapeGrads
  \/ FaceGetQuadraturePoints
  \/ FaceGetAnsatzPoints
  \/ FaceGetJxWValues
  \/ FaceGetNormalVectors

SpecFace == InitFace /\ [][NextFace]_vars


(***************************************************************************)
(* A program using either class                                            *)
(***************************************************************************)
Init == InitCell \/ InitFace

Next == NextCell \/ NextFace

Spec == Init /\ [][Next]_vars

(***************************************************************************)
(* A program that selects faces of one cell with FEFaceValues and compares *)
(* what the accessors give: after a reinit it reads all of them            *)
(* (first_reading) and goes on calling reinit (since_reading).             *)
(***************************************************************************)
\* what every accessor gives for every valid index, and the face selected
FaceObservation(self, dbg) ==
  LET D == 0 .. (self.total_dofs - 1)
      Q == 0 .. (self.n_quadrature_points - 1)
  IN  [selected_face |-> self.selected_face,
       shape_value |->
         [i \in D |-> [j \in Q |-> FEFaceValues_shape_value(self, i, j, dbg)]],
       shape_grad |->
         [i \in D |-> [j \in Q |-> FEFaceValues_shape_grad(self, i, j, dbg)]],
       quadrature_point |->
         [j \in Q |-> FEFaceValues_quadrature_point(self, j, dbg)],
       ansatz_point |-> [i \in D |-> FEFaceValues_ansatz_point(self, i, dbg)],
       normal_vector |-> [j \in Q |-> FEFaceValues_normal_vector(self, j, dbg)],
       JxW |-> [j \in Q |-> FEFaceValues_JxW(self, j, dbg)]]

\* the flags fe_values.cc tests
TestedFlags == UpdateFlags \ {"update_values"}

InitFaceSeq ==
  /\ debug \in BOOLEAN
  /\ evaluator = "FEFaceValues"
  /\ \E n \in 1 .. MaxQ, flags \in SUBSET TestedFlags :
       Constructed(FEFaceValues_ctor(FaceQuadrature(n), flags, debug))
  /\ fe_values = NoFEValues
  /\ present_cell = "none"
  /\ first_reading = NoReading
  /\ since_reading = <<>>
  /\ template_dim = dim
  /\ problem = NoProblem
  /\ run = NoRun
  /\ threads = NoThreads

\* the readings that are compared are those of the sequences
\*   reinit(c,f1); read; reinit(c,f1)                  and
\*   reinit(c,f1); read; reinit(c,f2); reinit(c,f1)
\* on one cell c; any other reinit on c ends the comparison
Compared(face_no) ==
  /\ first_reading.cell # "none"
  /\ \/ since_reading = <<>>
     \/ Len(since_reading) = 1 /\ face_no = first_reading.face

FaceRead ==
  /\ face_running
  /\ call.op = "reinit"
  /\ first_reading' = [cell |-> present_cell,
                       face |-> fe_face_values.selected_face,
                       obs |-> FaceObservation(fe_face_values, debug)]
  /\ since_reading' = <<>>
  /\ UNCHANGED <<problem, run, template_dim, threads, debug, evaluator, fe_values, fe_face_values, present_cell,
                 call>>

FaceReinitSeq ==
  /\ face_running
  /\ \E cell \in Cells, face_no \in Faces :
       /\ first_reading.cell \in {"none", cell}
       /\ Reinit(face_no,
                 FEFaceValues_reinit(fe_face_values, cell, face_no, debug),
                 fe_face_values')
       /\ present_cell' = cell
       /\ IF Compared(face_no)
          THEN /\ first_reading' = first_reading
               /\ since_reading' = Append(since_reading, face_no)
          ELSE /\ first_reading' = NoReading
               /\ since_reading' = <<>>
  /\ UNCHANGED <<problem, run, template_dim, threads, debug, evaluator, fe_values>>

NextFaceSeq ==
  \/ FaceReinitSeq
  \/ FaceRead

SpecFaceSeq == InitFaceSeq /\ [][NextFaceSeq]_vars


(***************************************************************************)
(* A program that instantiates FEFaceValues<d> for a dimension d, builds   *)
(* an object and calls reinit on it.  For d = 2 the object and reinit are  *)
(* those above.  For another d the model has no finite element and no      *)
(* mapping: the object is followed through the members that the            *)
(* constructor's face loop and the first statement of reinit write.        *)
(***************************************************************************)
\* FEFaceValues<d>::FEFaceValues
FEFaceValues_ctor_dim(d, quadrature, update_flags, dbg) ==
  IF d = dim THEN FEFaceValues_ctor(quadrature, update_flags, dbg)
  ELSE LET n == quadrature.n_quadrature_points
       IN  [obj |->
              [n_quadrature_points |-> n,
               total_dofs |-> fe_total_dofs,
               global_unit_quadrature_points |->
                 [face \in 0 .. (2 * d - 1) |-> [p \in 0 .. (n - 1) |->
                    [c \in 0 .. (d - 1) |-> Zero]]],
               update_flags |-> update_flags,
               selected_face |-> 0],
            out |-> FEFaceValues_face_loop(d, n, dbg)]

\* FEFaceValues<d>::reinit
FEFaceValues_reinit_dim(d, self, cell, face_no, dbg) ==
  IF d = dim THEN FEFaceValues_reinit(self, cell, face_no, dbg)
  ELSE [obj |-> [self EXCEPT !.selected_face = face_no], out |-> Return(Zero)]

InitDim ==
  /\ debug \in BOOLEAN
  /\ evaluator = "FEFaceValues"
  /\ \E d \in 1 .. MaxDim, n \in 1 .. MaxQ, flags \in SUBSET UpdateFlags :
       /\ template_dim = d
       /\ problem = NoProblem
       /\ run = NoRun
       /\ Constructed(FEFaceValues_ctor_dim(d, FaceQuadrature(n), flags, debug))
  /\ fe_values = NoFEValues
  /\ present_cell = "none"
  /\ first_reading = NoReading
  /\ since_reading = <<>>
  /\ threads = NoThreads

DimReinit ==
  /\ face_running
  /\ \E cell \in Cells, face_no \in 0 .. (2 * template_dim - 1) :
       /\ Reinit(face_no,
                 FEFaceValues_reinit_dim(template_dim, fe_face_values, cell,
                                         face_no, debug),
                 fe_face_values')
       /\ present_cell' = cell
  /\ UNCHANGED <<problem, run, template_dim, threads, debug, evaluator, fe_values,
                 first_reading, since_reading>>

SpecDim == InitDim /\ [][DimReinit]_vars

(***************************************************************************)
(* A program with two threads.  One owns an FEValues object (fe_values),   *)
(* the other an FEFaceValues object (fe_face_values); each calls reinit on *)
(* its own object.  reinit is not atomic: a thread is interrupted between  *)
(* the call of the mapping and the loops that follow it.  threads records  *)
(* where each thread is, the arguments of its reinit, and (alone) the      *)
(* object it would have had the other thread never run.                    *)
(***************************************************************************)
\* what every accessor of FEValues gives for every valid index
CellObservation(self, dbg) ==
  LET D == 0 .. (self.total_dofs - 1)
      Q == 0 .. (self.n_quadrature_points - 1)
  IN  [shape_value |->
         [i \in D |-> [j \in Q |-> FEValues_shape_value(self, i, j, dbg)]],
       shape_grad |->
         [i \in D |-> [j \in Q |-> FEValues_shape_grad(self, i, j, dbg)]],
       quadrature_point |-> [j \in Q |-> FEValues_quadrature_point(self, j, dbg)],
       ansatz_point |-> [i \in D |-> FEValues_ansatz_point(self, i, dbg)],
       JxW |-> [j \in Q |-> FEValues_JxW(self, j, dbg)]]

\* the flags the two objects are constructed with
ThreadFlags ==
  {{},
   {"update_gradients"},
   {"update_jacobians", "update_gradients"},
   {"update_q_points", "update_jacobians", "update_JxW_values"},
   TestedFlags}

\* the cells the two threads call reinit with
ThreadCells == {"scaled", "skew"}

InitThreads ==
  /\ debug \in BOOLEAN
  /\ evaluator = "both"
  /\ template_dim = dim
  /\ problem = NoProblem
  /\ run = NoRun
  /\ \E n \in 1 .. MaxQ, flags \in ThreadFlags :
       /\ fe_values = FEValues_ctor(Quadrature(n), flags)
       /\ fe_face_values = FEFaceValues_ctor(FaceQuadrature(n), flags, debug).obj
  /\ present_cell = "none"
  /\ call = Call("FEValues", 0, 0, Return(Zero))
  /\ first_reading = NoReading
  /\ since_reading = <<>>
  /\ threads =
       [cell |-> [pc |-> "idle", cell |-> "none", alone |-> fe_values],
        face |-> [pc |-> "idle", cell |-> "none", face_no |-> 0,
                  old_face |-> 0, alone |-> fe_face_values],
        overlap |-> FALSE]

\* a step of reinit is over: the program goes on unless an Assert failed
ThreadStep(face_no, out) ==
  call' = IF out.exc = "none" THEN call ELSE Call("reinit", face_no, 0, out)

\* the thread owning fe_values enters reinit and calls the mapping
ThreadCellCall ==
  /\ running
  /\ evaluator = "both"
  /\ threads.cell.pc = "idle"
  /\ \E cell \in ThreadCells :
       /\ fe_values' = FEValues_fill(fe_values, cell)
       /\ threads' =
            [threads EXCEPT
               !.cell = [pc |-> "filled", cell |-> cell,
                         alone |-> FEValues_reinit(threads.cell.alone, cell,
                                                   debug).obj],
               !.overlap = threads.overlap \/ threads.face.pc = "filled"]
  /\ UNCHANGED <<problem, run, template_dim, debug, evaluator, fe_face_values, present_cell,
                 call, first_reading, since_reading>>

\* it computes the gradients and the JxW values and returns
ThreadCellReturn ==
  /\ running
  /\ evaluator = "both"
  /\ threads.cell.pc = "filled"
  /\ LET r == FEValues_reinit_gradients(fe_values, debug)
     IN  /\ fe_values' = r.obj
         /\ ThreadStep(0, r.out)
  /\ threads' = [threads EXCEPT !.cell.pc = "idle"]
  /\ UNCHANGED <<problem, run, template_dim, debug, evaluator, fe_face_values, present_cell,
                 first_reading, since_reading>>

\* the face thread's call of the mapping, with the arrays of the Jacobi
\* matrices being one array that all objects share
ThreadFaceCall_with_shared_jacobi_matrices ==
  /\ running
  /\ evaluator = "both"
  /\ threads.face.pc = "idle"
  /\ \E cell \in ThreadCells, face_no \in Faces :
       /\ fe_face_values' =
            FEFaceValues_fill([fe_face_values EXCEPT !.selected_face = face_no],
                              cell, face_no)
       /\ fe_values' =
            [fe_values EXCEPT !.jacobi_matrices = fe_face_values'.jacobi_matrices]
       /\ threads' =
            [threads EXCEPT
               !.face = [pc |-> "filled", cell |-> cell, face_no |-> face_no,
                         old_face |-> fe_face_values.selected_face,
                         alone |-> FEFaceValues_reinit(threads.face.alone, cell,
                                                       face_no, debug).obj],
               !.overlap = threads.overlap \/ threads.cell.pc = "filled"]
  /\ UNCHANGED <<problem, run, template_dim, debug, evaluator, present_cell,
                 call, first_reading, since_reading>>

\* the thread owning fe_face_values enters reinit, selects the face and calls
\* the mapping
ThreadFaceCall ==
  /\ running
  /\ evaluator = "both"
  /\ threads.face.pc = "idle"
  /\ \E cell \in ThreadCells, face_no \in Faces :
       /\ fe_face_values' =
            FEFaceValues_fill([fe_face_values EXCEPT !.selected_face = face_no],
                              cell, face_no)
       /\ threads' =
            [threads EXCEPT
               !.face = [pc |-> "filled", cell |-> cell, face_no |-> face_no,
                         old_face |-> fe_face_values.selected_face,
                         alone |-> FEFaceValues_reinit(threads.face.alone, cell,
                                                       face_no, debug).obj],
               !.overlap = threads.overlap \/ threads.cell.pc = "filled"]
  /\ UNCHANGED <<problem, run, template_dim, debug, evaluator, fe_values, present_cell,
                 call, first_reading, since_reading>>

\* it computes the gradients and the JxW values and returns
ThreadFaceReturn ==
  /\ running
  /\ evaluator = "both"
  /\ threads.face.pc = "filled"
  /\ LET r == FEFaceValues_reinit_gradients(fe_face_values,
                 threads.face.face_no, threads.face.old_face, debug)
     IN  /\ fe_face_values' = r.obj
         /\ ThreadStep(threads.face.face_no, r.out)
  /\ threads' = [threads EXCEPT !.face.pc = "idle"]
  /\ UNCHANGED <<problem, run, template_dim, debug, evaluator, fe_values, present_cell,
                 first_reading, since_reading>>

NextThreads ==
  \/ ThreadCellCall
  \/ ThreadCellReturn
  \/ ThreadFaceCall
  \/ ThreadFaceReturn

SpecThreads == InitThreads /\ [][NextThreads]_vars

(***************************************************************************)
(* Properties                                                              *)
(***************************************************************************)
\* the object the program uses and what its accessors give
Flags ==
  IF evaluator = "FEValues" THEN fe_values.update_flags
  ELSE fe_face_values.update_flags

NQuadraturePoints ==
  IF evaluator = "FEValues" THEN fe_values.n_quadrature_points
  ELSE fe_face_values.n_quadrature_points

Accessors ==
  {"shape_value", "shape_grad", "quadrature_point", "ansatz_point", "JxW"}
    \cup (IF evaluator = "FEFaceValues" THEN {"normal_vector"} ELSE {})

AccessorOutcome(op, i, j) ==
  IF evaluator = "FEValues"
  THEN CASE op = "shape_value" -> FEValues_shape_value(fe_values, i, j, debug)
         [] op = "shape_grad" -> FEValues_shape_grad(fe_values, i, j, debug)
         [] op = "quadrature_point" ->
              FEValues_quadrature_point(fe_values, i, debug)
         [] op = "ansatz_point" -> FEValues_ansatz_point(fe_values, i, debug)
         [] OTHER -> FEValues_JxW(fe_values, i, debug)
  ELSE CASE op = "shape_value" ->
              FEFaceValues_shape_value(fe_face_values, i, j, debug)
         [] op = "shape_grad" ->
              FEFaceValues_shape_grad(fe_face_values, i, j, debug)
         [] op = "quadrature_point" ->
              FEFaceValues_quadrature_point(fe_face_values, i, debug)
         [] op = "ansatz_point" ->
              FEFaceValues_ansatz_point(fe_face_values, i, debug)
         [] op = "normal_vector" ->
              FEFaceValues_normal_vector(fe_face_values, i, debug)
         [] OTHER -> FEFaceValues_JxW(fe_face_values, i, debug)

\* the tag of UpdateFlags that stands for the field an accessor returns
TagOf(op) ==
  CASE op = "shape_value" -> "update_values"
    [] op = "shape_grad" -> "update_gradients"
    [] op = "quadrature_point" -> "update_q_points"
    [] op = "ansatz_point" -> "update_ansatz_points"
    [] op = "normal_vector" -> "update_normal_vectors"
    [] OTHER -> "update_JxW_values"

TwoIndices(op) == op \in {"shape_value", "shape_grad"}

\* the bound of an accessor's (first) index
BoundOf(op) ==
  IF op \in {"shape_value", "shape_grad", "ansatz_point"} THEN fe_total_dofs
  ELSE NQuadraturePoints

\* the arguments an accessor is called with: (i, j), j = 0 when it takes one
Arguments(op) ==
  {<<i, j>> \in Indices(BoundOf(op)) \X Indices(NQuadraturePoints) :
     TwoIndices(op) \/ j = 0}

InRange(op, i, j) ==
  i < BoundOf(op) /\ (TwoIndices(op) => j < NQuadraturePoints)

NeedsJacobians(flags) ==
  /\ {"update_gradients", "update_JxW_values"} \cap flags # {}
  /\ "update_jacobians" \notin flags

C2_ShapeValueIsReferenceValue ==
  evaluator = "FEValues" =>
    \A i \in 0 .. (fe_values.total_dofs - 1),
       j \in 0 .. (fe_values.n_quadrature_points - 1) :
      FEValues_shape_value(fe_values, i, j, debug) =
        {Return(fe_shape_value(i,
           Quadrature(fe_values.n_quadrature_points).quad_point[j]))}

C2_Witness ==
  /\ evaluator = "FEValues"
  /\ call.op = "reinit" /\ running
  /\ present_cell = "skew"
  /\ {"update_gradients", "update_jacobians", "update_JxW_values",
      "update_q_points"} \subseteq fe_values.update_flags
  /\ fe_values.n_quadrature_points = 2
  /\ FEValues_shape_value(fe_values, 0, 1, debug) =
       {Return(fe_shape_value(0, Quadrature(2).quad_point[1]))}

\* the point of the unit cell at which point t of the unit face lies on face f
FaceEmbedding(f, t) ==
  CASE f = 0 -> Point2(t, Zero)
    [] f = 1 -> Point2(One, t)
    [] f = 2 -> Point2(t, One)
    [] OTHER -> Point2(Zero, t)

\* C3, as stated: after the construction of FEFaceValues<2> from a face
\* quadrature formula with points t_0..t_{n-1}, the tables of face f hold the
\* finite element's value and unit gradient at (t_j,0), (1,t_j), (t_j,1),
\* (0,t_j) for f = 0, 1, 2, 3.
C3_FaceTablesAtEmbeddedPoints ==
  evaluator = "FEFaceValues" =>
    \A f \in Faces,
       i \in 0 .. (fe_face_values.total_dofs - 1),
       j \in 0 .. (fe_face_values.n_quadrature_points - 1) :
      LET t == FaceQuadrature(fe_face_values.n_quadrature_points).quad_point[j][0]
      IN  /\ fe_face_values.shape_values[f][i][j] =
               fe_shape_value(i, FaceEmbedding(f, t))
          /\ fe_face_values.unit_shape_gradients[f][i][j] =
               fe_shape_grad(i, FaceEmbedding(f, t))

C6_CellJxWIsWeightOverDeterminant ==
  /\ evaluator = "FEValues"
  /\ present_cell # "none"
  /\ {"update_jacobians", "update_JxW_values"} \subseteq fe_values.update_flags
  => \A j \in 0 .. (fe_values.n_quadrature_points - 1) :
       LET quadrature == Quadrature(fe_values.n_quadrature_points)
           J == CellJacobian(present_cell, quadrature.quad_point[j])
           w == quadrature.weight[j]
           JxW == FEValues_JxW(fe_values, j, debug)
       IN  /\ fe_values.jacobi_matrices[j] = J
           /\ JxW = {Return(RDiv(w, determinant(J)))}
           /\ J = Identity => JxW = {Return(w)}
           /\ determinant(J) = Rat(1, 4) => JxW = {Return(RMul(Rat(4, 1), w))}

C6_Witness ==
  /\ evaluator = "FEValues"
  /\ call.op = "reinit" /\ running
  /\ present_cell = "scaled"
  /\ {"update_jacobians", "update_JxW_values"} \subseteq fe_values.update_flags
  /\ fe_values.n_quadrature_points = 2
  /\ determinant(fe_values.jacobi_matrices[1]) = Rat(1, 4)
  /\ fe_values.JxW_values[1] = RMul(Rat(4, 1), Quadrature(2).weight[1])

C8_IdentityJacobianKeepsGradient ==
  /\ evaluator = "FEValues"
  /\ present_cell # "none"
  /\ {"update_gradients", "update_jacobians"} \subseteq fe_values.update_flags
  /\ \A j \in 0 .. (fe_values.n_quadrature_points - 1) :
       fe_values.jacobi_matrices[j] = Identity
  => \A i \in 0 .. (fe_values.total_dofs - 1),
        j \in 0 .. (fe_values.n_quadrature_points - 1) :
       FEValues_shape_grad(fe_values, i, j, debug) =
         {Return(fe_shape_grad(i,
            Quadrature(fe_values.n_quadrature_points).quad_point[j]))}

C8_Witness ==
  /\ evaluator = "FEValues"
  /\ call.op = "reinit" /\ running
  /\ present_cell = "unit"
  /\ {"update_gradients", "update_jacobians"} \subseteq fe_values.update_flags
  /\ fe_values.n_quadrature_points = 2
  /\ fe_values.jacobi_matrices[1] = Identity
  /\ fe_values.shape_gradients[0][1] =
       fe_shape_grad(0, Quadrature(2).quad_point[1])
  /\ fe_values.shape_gradients[0][1] # PointZero

\* C9: in the sequence reinit(c,f1); read; reinit(c,f2); reinit(c,f1); read
\* on an FEFaceValues object, the second reading of every accessor, for
\* every valid index, is the first one (and f1 is the face selected).
C9_ReselectedFaceReadsTheSame ==
  /\ first_reading.cell # "none"
  /\ Len(since_reading) = 2
  /\ since_reading[2] = first_reading.face
  /\ present_cell = first_reading.cell
  => FaceObservation(fe_face_values, debug) = first_reading.obs

C9_Witness ==
  /\ first_reading.cell = "skew"
  /\ present_cell = "skew"
  /\ running
  /\ first_reading.face = 1
  /\ since_reading = <<2, 1>>
  /\ fe_face_values.update_flags = TestedFlags
  /\ fe_face_values.n_quadrature_points = 2
  /\ FaceObservation(fe_face_values, debug) = first_reading.obs
  /\ first_reading.obs.shape_grad[1][1] # {Return(PointZero)}

\* C10: reinit(c,f) called twice in a row on an FEFaceValues object: after
\* the second call the face selected and what every accessor gives, for
\* every valid index, are what they were after the first call.
C10_FaceReinitIsIdempotent ==
  /\ first_reading.cell # "none"
  /\ since_reading = <<first_reading.face>>
  /\ present_cell = first_reading.cell
  => /\ fe_face_values.selected_face = first_reading.face
     /\ FaceObservation(fe_face_values, debug) = first_reading.obs

C10_Witness ==
  /\ first_reading.cell = "scaled"
  /\ present_cell = "scaled"
  /\ running
  /\ first_reading.face = 2
  /\ since_reading = <<2>>
  /\ fe_face_values.update_flags = TestedFlags
  /\ fe_face_values.n_quadrature_points = 2
  /\ FaceObservation(fe_face_values, debug) = first_reading.obs
  /\ first_reading.obs.shape_grad[2][1] # {Return(PointZero)}


\* the accessors that test the tag of their field
TagChecked ==
  Accessors \ {"shape_value"}

C12_ReleaseStopsOnEveryError ==
  ~debug =>
    /\ \A op \in Accessors :
         \A a \in Arguments(op) :
           ~InRange(op, a[1], a[2]) \/ TagOf(op) \notin Flags =>
             \A out \in AccessorOutcome(op, a[1], a[2]) :
               out.exc \in {"ExcInvalidIndex", "ExcAccessToUninitializedField"}
    /\ NeedsJacobians(Flags) /\ present_cell # "none" =>
         call.op = "reinit" /\ call.out.exc = "ExcCannotInitializeField"


C14_ThreadsDoNotInterfere ==
  evaluator = "both" /\ running =>
    /\ threads.cell.pc = "idle" =>
         /\ fe_values = threads.cell.alone
         /\ CellObservation(fe_values, debug) =
              CellObservation(threads.cell.alone, debug)
    /\ threads.face.pc = "idle" =>
         /\ fe_face_values = threads.face.alone
         /\ FaceObservation(fe_face_values, debug) =
              FaceObservation(threads.face.alone, debug)

C14_Witness ==
  /\ evaluator = "both" /\ running
  /\ threads.overlap
  /\ threads.cell.pc = "idle" /\ threads.cell.cell = "skew"
  /\ threads.face.pc = "filled" /\ threads.face.cell = "scaled"
  /\ threads.face.face_no = 3
  /\ fe_values.update_flags = TestedFlags
  /\ fe_values.n_quadrature_points = 2
  /\ fe_values.jacobi_matrices[1] =
       CellJacobian("skew", Quadrature(2).quad_point[1])
  /\ fe_values = threads.cell.alone


\* C15: every step of the program that changes anything of the FEValues or
\* the FEFaceValues object (tables, per-cell arrays, flags, selected face) is
\* a call of reinit, which leaves the object as reinit with the cell and the
\* face of that call leaves it; no call of an accessor or of a get_
\* function, whether it returns or fails, changes either object.
C15_OnlyReinitChangesTheObject ==
  [][fe_values' # fe_values \/ fe_face_values' # fe_face_values
       => /\ call'.op = "reinit"
          /\ fe_values' =
               IF evaluator = "FEValues"
               THEN FEValues_reinit(fe_values, present_cell', debug).obj
               ELSE fe_values
          /\ fe_face_values' =
               IF evaluator = "FEFaceValues"
               THEN FEFaceValues_reinit(fe_face_values, present_cell',
                                        call'.i, debug).obj
               ELSE fe_face_values]_vars

C15_Witness ==
  /\ evaluator = "FEFaceValues"
  /\ debug
  /\ call.op = "get_normal_vectors"
  /\ call.out.exc = "ExcAccessToUninitializedField"
  /\ present_cell = "skew"
  /\ fe_face_values.selected_face = 3
  /\ fe_face_values.n_quadrature_points = 2
  /\ "update_q_points" \in fe_face_values.update_flags
  /\ fe_face_values.quadrature_points[1] =
       MapPoint("skew", fe_face_values.global_unit_quadrature_points[3][1])


\* C16: after reinit(cell) of an FEValues object constructed with gradients
\* and jacobians requested, for all i < total_dofs, j < n_quadrature_points
\* and components s, shape_grad(i,j)(s) is the sum over b of the gradient on
\* the unit cell (b) times Jacobian[j](b,s), Jacobian[j] being the matrix of
\* the cell of this reinit at quadrature point j.
C16_GradientIsUnitGradientTimesJacobian ==
  /\ evaluator = "FEValues"
  /\ present_cell # "none"
  /\ {"update_gradients", "update_jacobians"} \subseteq fe_values.update_flags
  => \A i \in 0 .. (fe_values.total_dofs - 1),
        j \in 0 .. (fe_values.n_quadrature_points - 1) :
       LET q == Quadrature(fe_values.n_quadrature_points).quad_point[j]
           J == CellJacobian(present_cell, q)
           g == fe_shape_grad(i, q)
       IN  /\ fe_values.jacobi_matrices[j] = J
           /\ FEValues_shape_grad(fe_values, i, j, debug) =
                {Return([s \in Components |->
                           RAdd(RMul(g[0], J[0][s]), RMul(g[1], J[1][s]))])}

C16_Witness ==
  /\ evaluator = "FEValues"
  /\ call.op = "reinit" /\ running
  /\ present_cell = "skew"
  /\ {"update_gradients", "update_jacobians"} \subseteq fe_values.update_flags
  /\ fe_values.n_quadrature_points = 2
  /\ fe_values.jacobi_matrices[1] =
       CellJacobian("skew", Quadrature(2).quad_point[1])
  /\ fe_values.jacobi_matrices[1][0][1] # fe_values.jacobi_matrices[1][1][0]
  /\ fe_values.shape_gradients[2][1] #
       fe_shape_grad(2, Quadrature(2).quad_point[1])

\* C17: after reinit(cell, f) of an FEFaceValues object, f is the face
\* selected, shape_value(i,j) is entry (i,j) of the value table of face f and,
\* with gradients and jacobians requested, shape_grad(i,j) is the entry (i,j)
\* of the gradient table of the same face f transformed with the Jacobi
\* matrix of this cell at point j of face f.
C17_ValuesAndGradientsOfTheSameFace ==
  /\ evaluator = "FEFaceValues"
  /\ call.op = "reinit" /\ running
  => LET f == call.i
     IN  /\ fe_face_values.selected_face = f
         /\ \A i \in 0 .. (fe_face_values.total_dofs - 1),
               j \in 0 .. (fe_face_values.n_quadrature_points - 1) :
              /\ FEFaceValues_shape_value(fe_face_values, i, j, debug) =
                   {Return(fe_face_values.shape_values[f][i][j])}
              /\ {"update_gradients", "update_jacobians"}
                   \subseteq fe_face_values.update_flags =>
                   LET J == CellJacobian(present_cell,
                              fe_face_values.global_unit_quadrature_points[f][j])
                       g == fe_face_values.unit_shape_gradients[f][i][j]
                   IN  FEFaceValues_shape_grad(fe_face_values, i, j, debug) =
                         {Return([s \in Components |->
                            RAdd(RMul(g[0], J[0][s]), RMul(g[1], J[1][s]))])}

C17_Witness ==
  /\ evaluator = "FEFaceValues"
  /\ call.op = "reinit" /\ running
  /\ call.i = 2
  /\ present_cell = "skew"
  /\ {"update_gradients", "update_jacobians"}
       \subseteq fe_face_values.update_flags
  /\ fe_face_values.n_quadrature_points = 2
  /\ fe_face_values.selected_face = 2
  /\ fe_face_values.shape_values[2][3][1] # fe_face_values.shape_values[0][3][1]
  /\ FEFaceValues_shape_value(fe_face_values, 3, 1, debug) =
       {Return(fe_face_values.shape_values[2][3][1])}
  /\ fe_face_values.shape_gradients[3][1] # PointZero

\* C18, as stated: after reinit(cell, f) of an FEFaceValues object whose
\* flags contain normal_vectors, whatever else they contain, normal_vector(j)
\* is the outward normal of face f of that cell for every
\* j < n_quadrature_points.
C18_NormalVectorsWheneverRequested ==
  /\ evaluator = "FEFaceValues"
  /\ call.op = "reinit" /\ running
  /\ "update_normal_vectors" \in fe_face_values.update_flags
  => \A j \in 0 .. (fe_face_values.n_quadrature_points - 1) :
       FEFaceValues_normal_vector(fe_face_values, j, debug) =
         {Return(FaceNormal(present_cell, call.i))}

\* C19: a step of the program changes shape_gradients only if
\* update_gradients is among the flags of the evaluator, and JxW_values only
\* if update_JxW_values is: without the tag reinit leaves the array as it
\* was.
C19_ReinitComputesOnlyRequestedFields ==
  [][/\ "update_gradients" \notin Flags =>
          /\ fe_values'.shape_gradients = fe_values.shape_gradients
          /\ fe_face_values'.shape_gradients = fe_face_values.shape_gradients
     /\ "update_JxW_values" \notin Flags =>
          /\ fe_values'.JxW_values = fe_values.JxW_values
          /\ fe_face_values'.JxW_values = fe_face_values.JxW_values]_vars

C19_Witness ==
  /\ evaluator = "FEValues"
  /\ call.op = "reinit" /\ running
  /\ present_cell = "scaled"
  /\ fe_values.update_flags =
       {"update_jacobians", "update_JxW_values", "update_q_points"}
  /\ fe_values.n_quadrature_points = 2
  /\ fe_values.JxW_values[0] = RMul(Rat(4, 1), Quadrature(2).weight[0])
  /\ fe_values.jacobi_matrices[0] # MatrixZero
  /\ \A i \in 0 .. (fe_total_dofs - 1), j \in 0 .. 1 :
       fe_values.shape_gradients[i][j] = PointZero

\* C20: after reinit(cell) of an FEValues object, the Jacobi matrices are
\* those of this cell if update_jacobians was requested and else are as the
\* constructor left them, and in the same way the quadrature points follow
\* update_q_points alone and the ansatz points update_ansatz_points alone;
\* with none of the three requested all three arrays are as the constructor
\* left them.
C20_MappingFillsWhatWasRequested ==
  /\ evaluator = "FEValues"
  /\ present_cell # "none"
  => LET n == fe_values.n_quadrature_points
         flags == fe_values.update_flags
         constructed == FEValues_ctor(Quadrature(n), flags)
         q == Quadrature(n).quad_point
     IN  /\ fe_values.jacobi_matrices =
              IF "update_jacobians" \in flags
              THEN [j \in 0 .. (n - 1) |-> CellJacobian(present_cell, q[j])]
              ELSE constructed.jacobi_matrices
         /\ fe_values.quadrature_points =
              IF "update_q_points" \in flags
              THEN [j \in 0 .. (n - 1) |-> MapPoint(present_cell, q[j])]
              ELSE constructed.quadrature_points
         /\ fe_values.ansatz_points =
              IF "update_ansatz_points" \in flags
              THEN [i \in 0 .. (fe_total_dofs - 1) |->
                      MapPoint(present_cell, UnitVertex(i))]
              ELSE constructed.ansatz_points

C20_Witness ==
  /\ evaluator = "FEValues"
  /\ call.op = "reinit" /\ running
  /\ present_cell = "skew"
  /\ fe_values.update_flags = {"update_q_points"}
  /\ fe_values.n_quadrature_points = 2
  /\ fe_values.quadrature_points[1] =
       MapPoint("skew", Quadrature(2).quad_point[1])
  /\ fe_values.quadrature_points[1] # PointZero
  /\ fe_values.jacobi_matrices[1] = MatrixZero
  /\ fe_values.ansatz_points[2] = PointZero

(***************************************************************************)
(* A program that constructs an evaluator of either class and calls reinit *)
(* for one cell after the other.  The accessors are const and a program    *)
(* calling them in between has the same objects.                           *)
(***************************************************************************)
NextReinit == CellReinit \/ FaceReinit

SpecReinit == Init /\ [][NextReinit]_vars

\* the evaluator of the program had it been constructed as it was and reinit
\* been called once, for the present cell (and the selected face)
AfterOneReinit ==
  IF evaluator = "FEValues"
  THEN FEValues_reinit(
         FEValues_ctor(Quadrature(fe_values.n_quadrature_points),
                       fe_values.update_flags),
         present_cell, debug).obj
  ELSE FEFaceValues_reinit(
         FEFaceValues_ctor(FaceQuadrature(fe_face_values.n_quadrature_points),
                           fe_face_values.update_flags, debug).obj,
         present_cell, fe_face_values.selected_face, debug).obj

\* C21: after any history of calls that ends with reinit for a cell c (and a
\* face), every accessor gives for every valid index what it gives on an
\* equally constructed evaluator whose only call was that reinit: the
\* gradients, JxW values, quadrature points and support points depend on c,
\* the flags and the constructor's tables only, and nothing of an earlier
\* cell survives in them or is accumulated into them.
C21_ReinitForgetsEarlierCells ==
  present_cell # "none" =>
    IF evaluator = "FEValues"
    THEN CellObservation(fe_values, debug)
           = CellObservation(AfterOneReinit, debug)
    ELSE FaceObservation(fe_face_values, debug)
           = FaceObservation(AfterOneReinit, debug)

\* reinit has computed gradients and JxW values of the skew cell, whose
\* gradients differ from those of every other cell
C21_Witness ==
  /\ call.op = "reinit"
  /\ running
  /\ present_cell = "skew"
  /\ {"update_gradients", "update_jacobians", "update_JxW_values",
      "update_q_points"} \subseteq Flags
  /\ \E j \in 0 .. (NQuadraturePoints - 1) :
       AccessorOutcome("shape_grad", 0, j)
         # {Return(real_gradient(PointZero,
                     IF evaluator = "FEValues"
                     THEN fe_values.unit_shape_gradients[0][j]
                     ELSE fe_face_values.unit_shape_gradients[
                            fe_face_values.selected_face][0][j],
                     Identity))}

\* what the constructor computes from the finite element and the quadrature
\* rule
ConstructionData ==
  IF evaluator = "FEValues"
  THEN [total_dofs |-> fe_values.total_dofs,
        n_quadrature_points |-> fe_values.n_quadrature_points,
        shape_values |-> fe_values.shape_values,
        unit_shape_gradients |-> fe_values.unit_shape_gradients,
        weights |-> fe_values.weights,
        unit_quadrature_points |-> fe_values.unit_quadrature_points,
        global_unit_quadrature_points |-> <<>>]
  ELSE [total_dofs |-> fe_face_values.total_dofs,
        n_quadrature_points |-> fe_face_values.n_quadrature_points,
        shape_values |-> fe_face_values.shape_values,
        unit_shape_gradients |-> fe_face_values.unit_shape_gradients,
        weights |-> fe_face_values.weights,
        unit_quadrature_points |-> fe_face_values.unit_quadrature_points,
        global_unit_quadrature_points |->
          fe_face_values.global_unit_quadrature_points]

\* C22: no call of reinit, of FEValues or of FEFaceValues, changes what the
\* constructor stored: the tables of values and of gradients on the unit
\* cell, the weights, the unit quadrature points, for faces the points of
\* each face, total_dofs and n_quadrature_points are after every step what
\* they were before it.
C22_ReinitKeepsConstructionData ==
  [][ConstructionData' = ConstructionData]_vars

\* reinit has written the gradients of a cell that is not the unit cell, with
\* every field requested
C22_Witness ==
  /\ call.op = "reinit"
  /\ running
  /\ present_cell = "scaled"
  /\ Flags = UpdateFlags
  /\ \E j \in 0 .. (NQuadraturePoints - 1) :
       IF evaluator = "FEValues"
       THEN fe_values.shape_gradients[0][j]
              # fe_values.unit_shape_gradients[0][j]
       ELSE fe_face_values.shape_gradients[0][j]
              # fe_face_values.unit_shape_gradients[
                  fe_face_values.selected_face][0][j]

(***************************************************************************)
(* A program that calls reinit of FEFaceValues with any unsigned face_no   *)
(* and reads the shape values of the selected face.                        *)
(***************************************************************************)
FaceReinitAnyFace ==
  /\ face_running
  /\ \E cell \in Cells, face_no \in UnsignedFaces :
       \E r \in FEFaceValues_reinit_any_face(fe_face_values, cell, face_no,
                                             debug) :
         /\ Reinit(face_no, r, fe_face_values')
         /\ present_cell' = cell
  /\ UNCHANGED <<problem, run, template_dim, threads, debug, evaluator, fe_values, first_reading, since_reading>>

NextAnyFace == FaceReinitAnyFace \/ FaceShapeValue \/ FaceGetShapeValues

SpecAnyFace == InitFace /\ [][NextAnyFace]_vars

\* C23: in every state of a program using FEFaceValues the selected face is
\* one of the 2*dim faces, whatever unsigned face_no reinit was called with,
\* values of 2*dim and more included; it is 0 after the constructor and the
\* face_no of the last reinit afterwards.
C23_SelectedFaceInRange ==
  /\ fe_face_values.selected_face \in Faces
  /\ call.op = "FEFaceValues" => fe_face_values.selected_face = 0
  /\ call.op = "reinit" => fe_face_values.selected_face = call.i

\* the gradients on the real cell and the JxW values the evaluator holds
GradientsAndJxW ==
  IF evaluator = "FEValues"
  THEN <<fe_values.shape_gradients, fe_values.JxW_values>>
  ELSE <<fe_face_values.shape_gradients, fe_face_values.JxW_values>>

SharedThreads == {1, 2}

\* the flags the shared object is constructed with
SharedFlags ==
  {{"update_q_points"},
   {"update_gradients"},
   {"update_jacobians", "update_gradients", "update_JxW_values"},
   TestedFlags}

\* reinit, the block "if (update_flags & update_gradients)" alone
FEValues_reinit_gradients_block(self, dbg) ==
  IF "update_gradients" \in self.update_flags
  THEN IF dbg /\ "update_jacobians" \notin self.update_flags
       THEN [obj |-> self, out |-> Throw("ExcCannotInitializeField", 0, 0)]
       ELSE [obj |-> FEValues_gradients(self), out |-> Return(Zero)]
  ELSE [obj |-> self, out |-> Return(Zero)]

InitShared ==
  /\ debug \in BOOLEAN
  /\ evaluator = "shared"
  /\ template_dim = dim
  /\ problem = NoProblem
  /\ run = NoRun
  /\ \E n \in 1 .. MaxQ, flags \in SharedFlags :
       fe_values = FEValues_ctor(Quadrature(n), flags)
  /\ fe_face_values = NoFEFaceValues
  /\ present_cell = "none"
  /\ call = Call("FEValues", 0, 0, Return(Zero))
  /\ first_reading = NoReading
  /\ since_reading = <<>>
  /\ threads = [t \in SharedThreads |-> [pc |-> "idle", cell |-> "none"]]

\* a reinit that waits until no other thread is inside reinit
SharedFill_holding_a_lock(t) ==
  /\ running
  /\ evaluator = "shared"
  /\ \A u \in SharedThreads : threads[u].pc = "idle"
  /\ \E cell \in ThreadCells :
       /\ fe_values' = FEValues_fill(fe_values, cell)
       /\ present_cell' = cell
       /\ threads' = [threads EXCEPT ![t] = [pc |-> "filled", cell |-> cell]]
  /\ UNCHANGED <<problem, run, template_dim, debug, evaluator, fe_face_values, call,
                 first_reading, since_reading>>

\* thread t enters reinit and calls the mapping
SharedFill(t) ==
  /\ running
  /\ evaluator = "shared"
  /\ threads[t].pc = "idle"
  /\ \E cell \in ThreadCells :
       /\ fe_values' = FEValues_fill(fe_values, cell)
       /\ present_cell' = cell
       /\ threads' = [threads EXCEPT ![t] = [pc |-> "filled", cell |-> cell]]
  /\ UNCHANGED <<problem, run, template_dim, debug, evaluator, fe_face_values, call,
                 first_reading, since_reading>>

\* it runs the gradient loops
SharedGradients(t) ==
  /\ running
  /\ evaluator = "shared"
  /\ threads[t].pc = "filled"
  /\ LET r == FEValues_reinit_gradients_block(fe_values, debug)
     IN  /\ fe_values' = r.obj
         /\ ThreadStep(0, r.out)
  /\ threads' = [threads EXCEPT ![t].pc = "gradients"]
  /\ UNCHANGED <<problem, run, template_dim, debug, evaluator, fe_face_values, present_cell,
                 first_reading, since_reading>>

\* it runs the JxW loop and returns
SharedJxW(t) ==
  /\ running
  /\ evaluator = "shared"
  /\ threads[t].pc = "gradients"
  /\ LET r == FEValues_reinit_JxW(fe_values, debug)
     IN  /\ fe_values' = r.obj
         /\ ThreadStep(0, r.out)
  /\ threads' = [threads EXCEPT ![t].pc = "idle"]
  /\ UNCHANGED <<problem, run, template_dim, debug, evaluator, fe_face_values, present_cell,
                 first_reading, since_reading>>

NextShared ==
  \E t \in SharedThreads : SharedFill(t) \/ SharedGradients(t) \/ SharedJxW(t)

SpecShared == InitShared /\ [][NextShared]_vars

\* what the accessors of fe_values give, for each cell, after a reinit for
\* that cell by a program with one thread
AloneObservations ==
  {CellObservation(
     FEValues_reinit(
       FEValues_ctor(Quadrature(fe_values.n_quadrature_points),
                     fe_values.update_flags), c, debug).obj, debug) :
     c \in Cells}

\* C25: reinit of a shared FEValues object takes no lock and is not atomic.
\* A thread that is not inside reinit can enter it whatever block of reinit
\* the other thread is in, and each block works on what the shared object
\* holds at that moment: the gradient loops and the JxW loop of a thread use
\* the Jacobi matrices of the cell the mapping was last called with by
\* either thread, which need not be the cell of the thread's own call.
C25_ReinitTakesNoLock ==
  /\ [](\A t \in SharedThreads :
          running /\ threads[t].pc = "idle" => ENABLED SharedFill(t))
  /\ [][\A t \in SharedThreads :
          LET J == [j \in 0 .. (fe_values.n_quadrature_points - 1) |->
                      IF "update_jacobians" \in fe_values.update_flags
                      THEN CellJacobian(present_cell,
                                        fe_values.unit_quadrature_points[j])
                      ELSE MatrixZero]
          IN  /\ (/\ threads[t].pc = "filled"
                  /\ threads'[t].pc = "gradients"
                  /\ "update_gradients" \in fe_values.update_flags
                  /\ call' = call)
                 => \A i \in 0 .. (fe_total_dofs - 1), j \in DOMAIN J :
                      fe_values'.shape_gradients[i][j]
                        = real_gradient(PointZero,
                            fe_values.unit_shape_gradients[i][j], J[j])
              /\ (/\ threads[t].pc = "gradients"
                  /\ threads'[t].pc = "idle"
                  /\ "update_JxW_values" \in fe_values.update_flags
                  /\ call' = call)
                 => \A j \in DOMAIN J :
                      fe_values'.JxW_values[j]
                        = FEValues_JxW_value(fe_values.weights[j], J[j])]_vars

\* an interleaving after which the object is that of neither cell: a thread
\* has returned from reinit for one cell while the other thread is inside
\* reinit for another cell, and what the accessors give is what they give
\* after a reinit for no cell at all; the gradients are those of one cell and
\* the JxW values those of the other
C25_Witness ==
  /\ evaluator = "shared"
  /\ running
  /\ \E t, u \in SharedThreads :
       /\ threads[t].pc = "idle"
       /\ threads[u].pc = "filled"
       /\ threads[t].cell # "none"
       /\ threads[t].cell # threads[u].cell
       /\ LET own == FEValues_reinit(
                       FEValues_ctor(Quadrature(fe_values.n_quadrature_points),
                                     fe_values.update_flags),
                       threads[t].cell, debug).obj
              other == FEValues_reinit(
                         FEValues_ctor(Quadrature(fe_values.n_quadrature_points),
                                       fe_values.update_flags),
                         threads[u].cell, debug).obj
          IN  /\ fe_values.shape_gradients = own.shape_gradients
              /\ fe_values.JxW_values = other.JxW_values
              /\ own.shape_gradients # other.shape_gradients
              /\ own.JxW_values # other.JxW_values
  /\ "update_gradients" \in fe_values.update_flags
  /\ "update_JxW_values" \in fe_values.update_flags
  /\ CellObservation(fe_values, debug) \notin AloneObservations

\* what the constructor leaves in the array an accessor reads
InitialValue(op) == IF op = "JxW" THEN Zero ELSE PointZero

\* C26: the evaluators keep no record of reinit having been called.  Before
\* the first reinit, shape_grad, quadrature_point, ansatz_point, JxW and, of
\* FEFaceValues, normal_vector, called with indices in range and with their
\* tag requested, fail no Assert and return what the constructor stored, the
\* zero vector or 0; shape_value of FEFaceValues returns the entry of the
\* table of face 0.
C26_AccessorsWorkBeforeReinit ==
  present_cell = "none" =>
    /\ \A op \in Accessors \ {"shape_value"} :
         \A a \in Arguments(op) :
           InRange(op, a[1], a[2]) /\ TagOf(op) \in Flags =>
             AccessorOutcome(op, a[1], a[2]) = {Return(InitialValue(op))}
    /\ evaluator = "FEFaceValues" =>
         \A a \in Arguments("shape_value") :
           InRange("shape_value", a[1], a[2]) =>
             AccessorOutcome("shape_value", a[1], a[2])
               = {Return(fe_face_values.shape_values[0][a[1]][a[2]])}

\* an evaluator with every tag requested on which reinit was never called and
\* no accessor has failed, in debug mode: JxW(0) gives 0 and shape_grad(0,0)
\* the zero vector
C26_Witness ==
  /\ present_cell = "none"
  /\ debug
  /\ running
  /\ Flags = UpdateFlags
  /\ AccessorOutcome("JxW", 0, 0) = {Return(Zero)}
  /\ AccessorOutcome("shape_grad", 0, 0) = {Return(PointZero)}

(***************************************************************************)
(* BoussinesqFlowProblem<dim>.  A matrix is known by the mesh it was set   *)
(* up for and by whether it was assembled since; the triangulation by the  *)
(* number of times it was created or refined; a right hand side by the     *)
(* iteration of the time loop it was assembled in.  Time steps are whole   *)
(* multiples of a unit.                                                    *)
(***************************************************************************)
\* run(): "while (time <= 100)"
end_time == 100

\* run(): n_pre_refinement_steps = (dim == 2 ? 4 : 3)
n_pre_refinement_steps == IF dim = 2 THEN 4 ELSE 3

\* the values the time step formula of solve() gives; all are positive
TimeSteps == {8, 13, 21}

NoMatrix == [mesh |-> 0, entries |-> "none"]

\* BoussinesqFlowProblem<dim>::BoussinesqFlowProblem
BoussinesqFlowProblem_ctor ==
  [triangulation |-> 0,
   time_step |-> 0,
   old_time_step |-> 0,
   timestep_number |-> 0,
   rebuild_stokes_matrix |-> TRUE,
   rebuild_temperature_matrices |-> TRUE,
   rebuild_stokes_preconditioner |-> TRUE,
   stokes_matrix |-> NoMatrix,
   stokes_preconditioner |-> NoMatrix,
   temperature_mass_matrix |-> NoMatrix,
   temperature_stiffness_matrix |-> NoMatrix,
   stokes_rhs |-> [mesh |-> 0, iteration |-> 0],
   temperature_matrix |-> [mesh |-> 0, scale |-> Zero],
   temperature_rhs |-> [mesh |-> 0, ratio |-> Zero]]

\* BoussinesqFlowProblem<dim>::setup_dofs: every matrix is cleared and given
\* the sparsity pattern of the present mesh, the preconditioners are reset,
\* the vectors are resized
setup_dofs(self) ==
  LET empty == [mesh |-> self.triangulation, entries |-> "zero"]
  IN  [self EXCEPT
         !.stokes_matrix = empty,
         !.stokes_preconditioner = empty,
         !.temperature_mass_matrix = empty,
         !.temperature_stiffness_matrix = empty,
         !.stokes_rhs = [mesh |-> self.triangulation, iteration |-> 0],
         !.temperature_matrix = [mesh |-> self.triangulation, scale |-> Zero],
         !.temperature_rhs = [mesh |-> self.triangulation, ratio |-> Zero]]

\* refine_mesh that leaves rebuild_stokes_preconditioner as it is
refine_mesh_keeping_the_preconditioner(self) ==
  [setup_dofs([self EXCEPT !.triangulation = @ + 1]) EXCEPT
     !.rebuild_stokes_matrix = TRUE,
     !.rebuild_temperature_matrices = TRUE]

\* BoussinesqFlowProblem<dim>::refine_mesh
refine_mesh(self) ==
  [setup_dofs([self EXCEPT !.triangulation = @ + 1]) EXCEPT
     !.rebuild_stokes_matrix = TRUE,
     !.rebuild_temperature_matrices = TRUE,
     !.rebuild_stokes_preconditioner = TRUE]

\* assemble_stokes_system with "stokes_matrix=0" outside the if
assemble_stokes_system_zeroing_the_matrix(self, iteration) ==
  [self EXCEPT
     !.stokes_matrix =
        IF self.rebuild_stokes_matrix
        THEN [mesh |-> self.triangulation, entries |-> "assembled"]
        ELSE [mesh |-> self.triangulation, entries |-> "zero"],
     !.stokes_rhs = [mesh |-> self.triangulation, iteration |-> iteration],
     !.rebuild_stokes_matrix = FALSE]

\* BoussinesqFlowProblem<dim>::assemble_stokes_system, called in the given
\* iteration of the time loop
assemble_stokes_system(self, iteration) ==
  [self EXCEPT
     !.stokes_matrix =
        IF self.rebuild_stokes_matrix
        THEN [mesh |-> self.triangulation, entries |-> "assembled"]
        ELSE @,
     !.stokes_rhs = [mesh |-> self.triangulation, iteration |-> iteration],
     !.rebuild_stokes_matrix = FALSE]

\* BoussinesqFlowProblem<dim>::build_stokes_preconditioner
build_stokes_preconditioner(self) ==
  IF self.rebuild_stokes_preconditioner = FALSE THEN self
  ELSE [self EXCEPT
          !.stokes_preconditioner =
             [mesh |-> self.triangulation, entries |-> "assembled"],
          !.rebuild_stokes_preconditioner = FALSE]

\* BoussinesqFlowProblem<dim>::assemble_temperature_matrix
assemble_temperature_matrix(self) ==
  IF self.rebuild_temperature_matrices = FALSE THEN self
  ELSE [self EXCEPT
          !.temperature_mass_matrix =
             [mesh |-> self.triangulation, entries |-> "assembled"],
          !.temperature_stiffness_matrix =
             [mesh |-> self.triangulation, entries |-> "assembled"],
          !.rebuild_temperature_matrices = FALSE]

\* solve() computing the new time step without saving the present one
solve_time_step_keeping_the_old(self, new_time_step) ==
  [self EXCEPT !.time_step = new_time_step]

\* solve(), "old_time_step = time_step; time_step = ..."
solve_time_step(self, new_time_step) ==
  [self EXCEPT !.old_time_step = self.time_step,
               !.time_step = new_time_step]

\* BoussinesqFlowProblem<dim>::assemble_temperature_system with
\* get_extrapolated_temperature_range: the factor of the mass matrix and the
\* ratio time_step/old_time_step of the extrapolation
assemble_temperature_system(self) ==
  LET use_bdf2_scheme == self.timestep_number # 0
  IN  [self EXCEPT
         !.temperature_matrix =
            [mesh |-> self.triangulation,
             scale |-> IF use_bdf2_scheme
                       THEN Rat(2 * self.time_step + self.old_time_step,
                                self.time_step + self.old_time_step)
                       ELSE One],
         !.temperature_rhs =
            [mesh |-> self.triangulation,
             ratio |-> IF use_bdf2_scheme
                       THEN Rat(self.time_step, self.old_time_step)
                       ELSE Zero]]

\* run(), the condition of the goto
pre_refinement_due(timestep_number, pre_refinement_step) ==
  timestep_number = 0 /\ pre_refinement_step < n_pre_refinement_steps

\* a remeshing in every time step but the first
remesh_due_in_every_step(timestep_number) == timestep_number > 0

\* run(), the condition of the remeshing in the else branch
remesh_due(timestep_number) ==
  timestep_number > 0 /\ timestep_number % 5 = 0

(***************************************************************************)
(* A program that constructs a BoussinesqFlowProblem and calls run().      *)
(* run.pc is the statement run() is at; run.iteration counts the passes    *)
(* through the body of the time loop, and run.follows_setup tells that the *)
(* present pass is the first one since setup_dofs was called.              *)
(***************************************************************************)
InitRun ==
  /\ debug = FALSE
  /\ evaluator = "BoussinesqFlowProblem"
  /\ fe_values = NoFEValues
  /\ fe_face_values = NoFEFaceValues
  /\ present_cell = "none"
  /\ call = Call("BoussinesqFlowProblem", 0, 0, Return(Zero))
  /\ first_reading = NoReading
  /\ since_reading = <<>>
  /\ template_dim = dim
  /\ threads = NoThreads
  /\ problem = BoussinesqFlowProblem_ctor
  /\ run = [pc |-> "run", pre_refinement_step |-> 0, time |-> 0,
            iteration |-> 0, follows_setup |-> FALSE]

RunUnchanged ==
  UNCHANGED <<debug, evaluator, fe_values, fe_face_values, present_cell, call,
              first_reading, since_reading, template_dim, threads>>

\* run() up to the label start_time_iteration
RunBegin ==
  /\ evaluator = "BoussinesqFlowProblem"
  /\ run.pc = "run"
  /\ problem' = setup_dofs([problem EXCEPT !.triangulation = 1])
  /\ run' = [run EXCEPT !.pc = "start_time_iteration",
                        !.pre_refinement_step = 0,
                        !.follows_setup = TRUE]
  /\ RunUnchanged

\* from start_time_iteration to the time loop
StartTimeIteration ==
  /\ evaluator = "BoussinesqFlowProblem"
  /\ run.pc = "start_time_iteration"
  /\ problem' = [problem EXCEPT !.timestep_number = 0,
                                !.time_step = 0,
                                !.old_time_step = 0]
  /\ run' = [run EXCEPT !.pc = "assemble_stokes_system", !.time = 0]
  /\ RunUnchanged

AssembleStokesSystem ==
  /\ evaluator = "BoussinesqFlowProblem"
  /\ run.pc = "assemble_stokes_system"
  /\ problem' = assemble_stokes_system(problem, run.iteration + 1)
  /\ run' = [run EXCEPT !.pc = "build_stokes_preconditioner",
                        !.iteration = @ + 1]
  /\ RunUnchanged

BuildStokesPreconditioner ==
  /\ evaluator = "BoussinesqFlowProblem"
  /\ run.pc = "build_stokes_preconditioner"
  /\ problem' = build_stokes_preconditioner(problem)
  /\ run' = [run EXCEPT !.pc = "assemble_temperature_matrix"]
  /\ RunUnchanged

AssembleTemperatureMatrix ==
  /\ evaluator = "BoussinesqFlowProblem"
  /\ run.pc = "assemble_temperature_matrix"
  /\ problem' = assemble_temperature_matrix(problem)
  /\ run' = [run EXCEPT !.pc = "solve"]
  /\ RunUnchanged

\* solve() up to the call of assemble_temperature_system
Solve ==
  /\ evaluator = "BoussinesqFlowProblem"
  /\ run.pc = "solve"
  /\ \E new_time_step \in TimeSteps :
       problem' = solve_time_step(problem, new_time_step)
  /\ run' = [run EXCEPT !.pc = "assemble_temperature_system"]
  /\ RunUnchanged

\* the rest of solve(), and output_results()
AssembleTemperatureSystem ==
  /\ evaluator = "BoussinesqFlowProblem"
  /\ run.pc = "assemble_temperature_system"
  /\ problem' = assemble_temperature_system(problem)
  /\ run' = [run EXCEPT !.pc = "end of iteration"]
  /\ RunUnchanged

\* the branch of run() that ends with "goto start_time_iteration"
PreRefinement ==
  /\ evaluator = "BoussinesqFlowProblem"
  /\ run.pc = "end of iteration"
  /\ pre_refinement_due(problem.timestep_number, run.pre_refinement_step)
  /\ problem' = refine_mesh(problem)
  /\ run' = [run EXCEPT !.pc = "start_time_iteration",
                        !.pre_refinement_step = @ + 1,
                        !.follows_setup = TRUE]
  /\ RunUnchanged

\* the else branch and the end of the loop body, up to "while (time <= 100)"
NextTimeStep ==
  /\ evaluator = "BoussinesqFlowProblem"
  /\ run.pc = "end of iteration"
  /\ ~pre_refinement_due(problem.timestep_number, run.pre_refinement_step)
  /\ problem' =
       [(IF remesh_due(problem.timestep_number)
         THEN refine_mesh(problem) ELSE problem)
          EXCEPT !.timestep_number = @ + 1]
  /\ run' = [run EXCEPT
               !.time = @ + problem.time_step,
               !.follows_setup = remesh_due(problem.timestep_number),
               !.pc = IF run.time + problem.time_step <= end_time
                      THEN "assemble_stokes_system" ELSE "done"]
  /\ RunUnchanged

NextRun ==
  \/ RunBegin
  \/ StartTimeIteration
  \/ AssembleStokesSystem
  \/ BuildStokesPreconditioner
  \/ AssembleTemperatureMatrix
  \/ Solve
  \/ AssembleTemperatureSystem
  \/ PreRefinement
  \/ NextTimeStep

SpecRun == InitRun /\ [][NextRun]_vars

RebuildFlags ==
  <<problem.rebuild_stokes_matrix, problem.rebuild_temperature_matrices,
    problem.rebuild_stokes_preconditioner>>

\* a matrix assembled on the present mesh
Assembled == [mesh |-> problem.triangulation, entries |-> "assembled"]

\* C27: every refine_mesh of run() sets rebuild_stokes_matrix,
\* rebuild_temperature_matrices and rebuild_stokes_preconditioner, and
\* whenever run() is about to call solve(), the first time included, the
\* three flags are false and the Stokes matrix, the Stokes preconditioner
\* and the temperature mass and stiffness matrices have been assembled on
\* the present mesh.
C27_NothingToRebuildAtSolve ==
  /\ [][problem'.triangulation # problem.triangulation =>
          RebuildFlags' = <<TRUE, TRUE, TRUE>>]_vars
  /\ [](run.pc = "solve" =>
          /\ RebuildFlags = <<FALSE, FALSE, FALSE>>
          /\ problem.stokes_matrix = Assembled
          /\ problem.stokes_preconditioner = Assembled
          /\ problem.temperature_mass_matrix = Assembled
          /\ problem.temperature_stiffness_matrix = Assembled)

\* run() is about to call solve() in the time step after a remeshing of the
\* time loop
C27_Witness ==
  /\ run.pc = "solve"
  /\ run.follows_setup
  /\ problem.timestep_number = 6
  /\ problem.triangulation = 1 + n_pre_refinement_steps + 1

Matrices ==
  <<problem.stokes_matrix, problem.stokes_preconditioner,
    problem.temperature_mass_matrix, problem.temperature_stiffness_matrix>>

\* in a pass of the time loop that does not directly follow the construction
\* or a refine_mesh, assemble_stokes_system regenerates the right hand side
\* and leaves the matrix, and build_stokes_preconditioner and
\* assemble_temperature_matrix change nothing
OtherIterationsKeepMatrices ==
  ~run.follows_setup =>
    /\ run.pc = "assemble_stokes_system" =>
         /\ problem'.stokes_rhs # problem.stokes_rhs
         /\ problem' = [problem EXCEPT !.stokes_rhs = problem'.stokes_rhs]
    /\ run.pc \in {"build_stokes_preconditioner",
                    "assemble_temperature_matrix"} =>
         problem' = problem

\* C28, as stated: within the time loop of run() the Stokes matrix, the
\* Stokes preconditioner and the temperature mass and stiffness matrices
\* change only in a pass that directly follows the construction or a
\* refine_mesh; in every other pass the assembly functions leave them.
C28_MatricesChangeOnlyAfterRemeshing ==
  [][run.pc # "run" =>
       /\ Matrices' # Matrices => run.follows_setup
       /\ OtherIterationsKeepMatrices]_vars

\* C28, amended: the four matrices are changed by setup_dofs, which run()
\* calls before the loop and refine_mesh calls at the end of a pass, and by
\* the three assembly functions in the pass that directly follows such a
\* call, and by nothing else; in every other pass assemble_stokes_system
\* regenerates only the right hand side, and build_stokes_preconditioner
\* and assemble_temperature_matrix return without changing anything.
C28_MatricesChangeBySetupAndFirstAssembly ==
  [][/\ Matrices' # Matrices =>
          \/ problem'.triangulation # problem.triangulation
          \/ /\ run.follows_setup
             /\ run.pc \in {"assemble_stokes_system",
                             "build_stokes_preconditioner",
                             "assemble_temperature_matrix"}
     /\ OtherIterationsKeepMatrices]_vars

\* in the third time step, two passes after the last setup_dofs,
\* assemble_stokes_system has assembled the right hand side of this pass
C28_Witness ==
  /\ run.pc = "build_stokes_preconditioner"
  /\ ~run.follows_setup
  /\ problem.timestep_number = 2
  /\ problem.stokes_rhs = [mesh |-> problem.triangulation,
                           iteration |-> run.iteration]
  /\ problem.stokes_matrix = Assembled

\* C29: run() makes n_pre_refinement_steps pre-refinement rounds before
\* time advances.  A round is a pass of the loop at timestep_number 0 with
\* assembly and solve, then refine_mesh, then the restart at
\* start_time_iteration, which sets timestep_number, time, time_step and
\* old_time_step to 0.  timestep_number is incremented only after the last
\* round, and from then on refine_mesh is called at the end of exactly the
\* passes whose timestep_number is positive and divisible by 5.
C29_PreRefinementThenEveryFifthStep ==
  /\ [](/\ run.pre_refinement_step <= n_pre_refinement_steps
        /\ problem.timestep_number > 0 \/ run.time > 0 =>
             run.pre_refinement_step = n_pre_refinement_steps)
  /\ [][/\ run'.pre_refinement_step # run.pre_refinement_step =>
            /\ run'.pre_refinement_step = run.pre_refinement_step + 1
            /\ run.pc = "end of iteration"
            /\ problem.timestep_number = 0
            /\ run.time = 0
            /\ problem.stokes_rhs.iteration = run.iteration
            /\ problem.time_step \in TimeSteps
            /\ problem'.triangulation = problem.triangulation + 1
            /\ run'.pc = "start_time_iteration"
        /\ run.pc = "start_time_iteration" =>
            /\ problem'.timestep_number = 0
            /\ problem'.time_step = 0
            /\ problem'.old_time_step = 0
            /\ run'.time = 0
        /\ problem'.timestep_number # problem.timestep_number =>
            /\ problem'.timestep_number = problem.timestep_number + 1
            /\ run.pre_refinement_step = n_pre_refinement_steps
        /\ (/\ run.pc = "end of iteration"
            /\ run.pre_refinement_step = n_pre_refinement_steps) =>
            (problem'.triangulation # problem.triangulation
               <=> /\ problem.timestep_number > 0
                   /\ problem.timestep_number % 5 = 0)]_vars

\* time step 10 is over, the mesh has been refined in the pre-refinement
\* rounds and after time step 5, and is about to be refined again
C29_Witness ==
  /\ run.pc = "end of iteration"
  /\ problem.timestep_number = 10
  /\ run.pre_refinement_step = n_pre_refinement_steps
  /\ problem.triangulation = 1 + n_pre_refinement_steps + 1

\* C30: when assemble_temperature_system and
\* get_extrapolated_temperature_range take their branch for
\* timestep_number != 0, which divides by old_time_step, old_time_step is
\* not 0 but the time step that the solve() of the pass before computed,
\* solve() having saved it before computing the new one; the quotient
\* time_step/old_time_step has a denominator; and time_step and
\* old_time_step are both 0, as start_time_iteration sets them, only while
\* timestep_number is 0.
C30_OldTimeStepIsNotZeroWhenDividedBy ==
  /\ [](/\ (/\ run.pc = "assemble_temperature_system"
             /\ problem.timestep_number # 0) =>
             problem.old_time_step \in TimeSteps
        /\ (/\ run.pc = "end of iteration"
             /\ problem.timestep_number # 0) =>
             /\ problem.temperature_rhs.ratio[2] # 0
             /\ problem.temperature_matrix.scale[2] # 0
        /\ (problem.time_step = 0 /\ problem.old_time_step = 0) =>
             problem.timestep_number = 0)
  /\ [][run.pc = "solve" =>
          problem'.old_time_step = problem.time_step]_vars

\* the second solve() of the time loop has divided the new time step, 21,
\* by the one before, 8
C30_Witness ==
  /\ run.pc = "end of iteration"
  /\ problem.timestep_number = 1
  /\ problem.old_time_step = 8
  /\ problem.temperature_rhs.ratio = Rat(21, 8)
====
